---- MODULE Spec2Model ----
(***************************************************************************)
(* Model of @tool-chain/db: the Chains pipeline builder (src/src/chains.ts) *)
(* with its two execution strategies, the per-step option wrapping and the  *)
(* transaction adapters.                                                    *)
(*                                                                          *)
(* A pipeline value is an object on a heap (chains); its task list is a     *)
(* reference into a heap of arrays (arrays), because use()/transaction()    *)
(* copy the reference and chain() copies the contents.  Every invoke() is   *)
(* an asynchronous activation (invs) that advances at its await points.     *)
(* What a user-supplied step does when it is called - which shape it turns  *)
(* out to have, whether it writes, whether it throws - is chosen by the     *)
(* environment at the call.                                                 *)
(***************************************************************************)
EXTENDS Integers, Sequences, FiniteSets, TLC

VARIABLES chains, arrays, store, invs

vars == <<chains, arrays, store, invs>>

\* ------------------------------------------------------------ bounds
MaxChains == 4
MaxSteps == 2
MaxInvokes == 1
MaxRetry == 1
\* invoke() calls in the specification of repeated invocation
MaxRepeat == 2

\* ------------------------------------------------------------ domains
\* The handle kinds: one for which the adapter opens a transaction (a Kysely
\* or Drizzle database, a PrismaClient, a TypeORM DataSource) and the TypeORM
\* EntityManager.  The adapter is the one written for the handle, or absent.
Handles == {"db", "entityManager"}
NoAdapter == "undefined"
Adapters == {"adapter"}

\* context: DbContext | null
NullContext == [db |-> "null", adapter |-> "null", isTransaction |-> FALSE]

DbContext(db, adapter, isTransaction) ==
  [db |-> db, adapter |-> adapter, isTransaction |-> isTransaction]

\* chain(fn) called without an options argument
NoOptions ==
  [given |-> FALSE, retry |-> 0, withoutThrow |-> FALSE, timeout |-> FALSE]

\* { retry?, withoutThrow?, timeout? }: timeout says whether a time limit is
\* set; how long it is does not matter, only whether it elapses first.
\* ChainOptions are the options that set no time limit, TimedOptions all.
ChainOptions ==
  {NoOptions} \cup
  [given : {TRUE}, retry : {0, MaxRetry}, withoutThrow : BOOLEAN,
   timeout : {FALSE}]

TimedOptions ==
  ChainOptions \cup
  [given : {TRUE}, retry : {0, MaxRetry}, withoutThrow : BOOLEAN,
   timeout : {TRUE}]

\* Values that flow through a pipeline.  A value produced by a step carries
\* where it came from (the task and the attempt that produced it); env says
\* whether it is raw or wrapped in the {data} / {error} envelope.
Undefined == [kind |-> "undefined", task |-> 0, attempt |-> 0, env |-> "none"]
Raw(t, a) == [kind |-> "value", task |-> t, attempt |-> a, env |-> "none"]
\* undefined, as the value an operation resolved with.
Void(t, a) == [kind |-> "undefined", task |-> t, attempt |-> a, env |-> "none"]
\* A function returned by a definition instead of a value.
Fn(t, a) == [kind |-> "function", task |-> t, attempt |-> a, env |-> "none"]
\* The error adapter.transaction() rejects with when beginning, committing
\* or rolling back fails.
AdapterError(phase) ==
  [kind |-> phase, task |-> 0, attempt |-> 0, env |-> "none"]
AdapterErrors ==
  {AdapterError(ph) : ph \in {"BeginFailed", "CommitFailed", "RollbackFailed"}}
StepError(t, a) == [kind |-> "Error", task |-> t, attempt |-> a, env |-> "none"]
\* The error the policy executor raises when an attempt's time limit elapses.
TimeoutError(t, a) ==
  [kind |-> "Timeout", task |-> t, attempt |-> a, env |-> "none"]
ErrDatabaseNotSet ==
  [kind |-> "Database not set", task |-> 0, attempt |-> 0, env |-> "none"]
ErrAdapterRequired ==
  [kind |-> "Adapter is required", task |-> 0, attempt |-> 0, env |-> "none"]

DataEnvelope(v) == [v EXCEPT !.env = "data"]
ErrorEnvelope(e) == [e EXCEPT !.env = "error"]

\* The transactional handle the adapter hands to the callback of invocation v.
Trx(v) == <<"trx", v>>
HandleOf(db) == <<db, 0>>

\* A row written by task t during invocation v.
Row(v, t) == [inv |-> v, task |-> t]

\* ------------------------------------------------------------ builder
Tasks(p) == arrays[chains[p].tasks]

Init ==
  /\ chains = << [context |-> NullContext, tasks |-> 1] >>
  /\ arrays = << <<>> >>
  /\ store = {}
  /\ invs = <<>>

\* Variant of use() that leaves the new pipeline's tasks as constructed.
UseFresh(p, db, adapter) ==
  /\ Len(chains) < MaxChains
  /\ chains' = Append(chains, [context |-> DbContext(db, adapter, FALSE),
                               tasks |-> 1])
  /\ UNCHANGED <<arrays, store, invs>>

\* use(db, adapter?): a new pipeline with a non-transactional context and
\* the same tasks array (the reference is copied).
Use(p, db, adapter) ==
  /\ Len(chains) < MaxChains
  /\ chains' = Append(chains, [context |-> DbContext(db, adapter, FALSE),
                               tasks |-> chains[p].tasks])
  /\ UNCHANGED <<arrays, store, invs>>

\* transaction(db, adapter): as use(), with isTransaction set.
Transaction(p, db, adapter) ==
  /\ Len(chains) < MaxChains
  /\ chains' = Append(chains, [context |-> DbContext(db, adapter, TRUE),
                               tasks |-> chains[p].tasks])
  /\ UNCHANGED <<arrays, store, invs>>

\* The task chain() wraps around fn: identified by the pipeline object the
\* call creates, with the options it was given.
WrappedTask(id, options) == [id |-> id, options |-> options]

\* Variant of chain(): this.tasks.push(wrappedTask), the array being shared.
ChainPush(p, options) ==
  /\ Len(chains) < MaxChains
  /\ Len(Tasks(p)) < MaxSteps
  /\ LET id == Len(chains) + 1
     IN /\ arrays' = [arrays EXCEPT ![chains[p].tasks] =
                        Append(@, [id |-> id, options |-> options])]
        /\ chains' = Append(chains, [context |-> chains[p].context,
                                     tasks |-> chains[p].tasks])
  /\ UNCHANGED <<store, invs>>

\* Variant of chain() that calls fn with the bound handle when the step is
\* appended, to find out its shape.
ChainEager(p, options) ==
  /\ Len(chains) < MaxChains
  /\ Len(Tasks(p)) < MaxSteps
  /\ LET id == Len(chains) + 1
     IN /\ arrays' = Append(arrays, Append(Tasks(p), WrappedTask(id, options)))
        /\ chains' = Append(chains, [context |-> chains[p].context,
                                     tasks |-> Len(arrays) + 1])
        /\ store' = IF chains[p].context = NullContext THEN store
                    ELSE store \cup {Row(0, id)}
  /\ UNCHANGED invs

\* Variant of chain() that does not copy the context.
ChainWithoutContext(p, options) ==
  /\ Len(chains) < MaxChains
  /\ Len(Tasks(p)) < MaxSteps
  /\ LET id == Len(chains) + 1
     IN /\ arrays' = Append(arrays, Append(Tasks(p), WrappedTask(id, options)))
        /\ chains' = Append(chains, [context |-> NullContext,
                                     tasks |-> Len(arrays) + 1])
  /\ UNCHANGED <<store, invs>>

\* chain(fn, options?): a new pipeline sharing the context, with a new
\* array [...this.tasks, wrappedTask].
Chain(p, options) ==
  /\ Len(chains) < MaxChains
  /\ Len(Tasks(p)) < MaxSteps
  /\ LET id == Len(chains) + 1
     IN /\ arrays' = Append(arrays, Append(Tasks(p), WrappedTask(id, options)))
        /\ chains' = Append(chains, [context |-> chains[p].context,
                                     tasks |-> Len(arrays) + 1])
  /\ UNCHANGED <<store, invs>>

\* ------------------------------------------------------------ invoke()
\* Variant of the dispatch without the null check.
InvokeDispatchUnchecked(context) ==
  IF context.isTransaction THEN "executeWithTransaction"
  ELSE "executeSequentially"

\* Variant that runs in a transaction whenever an adapter was supplied.
InvokeDispatchByAdapter(context) ==
  IF context = NullContext THEN "throwDatabaseNotSet"
  ELSE IF context.isTransaction \/ context.adapter # NoAdapter
    THEN "executeWithTransaction"
  ELSE "executeSequentially"

\* invoke(): the context check, then the strategy the context selects.
InvokeDispatch(context) ==
  IF context = NullContext THEN "throwDatabaseNotSet"
  ELSE IF context.isTransaction THEN "executeWithTransaction"
  ELSE "executeSequentially"

\* Variant of the adapter check that lets a missing adapter through.
AdapterCheckSkipped(adapter) == "transaction"

\* executeWithTransaction(): the adapter check before adapter.transaction().
AdapterCheck(adapter) ==
  IF adapter = NoAdapter THEN "throwAdapterRequired" ELSE "transaction"

\* adapter.transaction(db, fn): every adapter hands db to its ORM's
\* transaction call, except that TypeORMAdapter calls fn(db) as it is when db
\* is an EntityManager.
OpensTransaction(adapter, db) == db # "entityManager"

\* Variant passing the bound handle instead of the transactional one.
TransactionHandleBound(db, trx) == db

\* The handle the callback of executeWithTransaction() passes to the tasks.
TransactionHandle(db, trx) == trx

\* Variant in which an activation starts from the accumulator an earlier
\* activation of the same pipeline left.
NewInvocationShared(p) ==
  LET earlier == {w \in DOMAIN invs : invs[w].chain = p}
      last == CHOOSE w \in earlier : \A u \in earlier : u <= w
  IN [chain |-> p, pc |-> "loop", handle |-> HandleOf("null"),
      trx |-> "none", i |-> 0,
      results |-> IF earlier = {} THEN <<>> ELSE invs[last].results,
      lastResult |-> Undefined,
      attempt |-> 0, via |-> "none", outcome |-> Undefined, writes |-> {},
      pending |-> {},
      born |-> Len(chains), began |-> <<>>, calls |-> <<>>, settled |-> <<>>,
      written |-> {}]

\* An activation of invoke() on pipeline p.  pending holds the operations
\* that were abandoned by a time limit and have not settled yet.  born,
\* began, calls, settled and written are history: the heap size at the
\* call, the handles adapter.transaction() was called with, the calls made
\* into user code, how each attempt ended, and the rows written through the
\* handle.
NewInvocation(p) ==
  [chain |-> p, pc |-> "loop", handle |-> HandleOf("null"), trx |-> "none",
   i |-> 0, results |-> <<>>, lastResult |-> Undefined,
   attempt |-> 0, via |-> "none", outcome |-> Undefined, writes |-> {},
   pending |-> {},
   born |-> Len(chains), began |-> <<>>, calls |-> <<>>, settled |-> <<>>,
   written |-> {}]

\* Variant in which the check runs under the last step's options, so that
\* withoutThrow turns the error into an envelope.
ConfigurationErrorCaptured(inv, e) ==
  LET tasks == Tasks(inv.chain)
  IN IF Len(tasks) > 0 /\ tasks[Len(tasks)].options.withoutThrow
       THEN [inv EXCEPT !.pc = "resolved", !.outcome = ErrorEnvelope(e)]
       ELSE [inv EXCEPT !.pc = "rejected", !.outcome = e]

\* throw new Error(...) out of invoke() before anything is run.
ConfigurationError(inv, e) == [inv EXCEPT !.pc = "rejected", !.outcome = e]

\* invoke(), as long as fewer than limit activations exist.
InvokeUpTo(p, limit) ==
  /\ Len(invs) < limit
  /\ LET c == chains[p].context
         v == Len(invs) + 1
         how == InvokeDispatch(c)
         inv ==
           IF how = "throwDatabaseNotSet"
             THEN ConfigurationError(NewInvocation(p), ErrDatabaseNotSet)
           ELSE IF how = "executeSequentially"
             THEN [NewInvocation(p) EXCEPT !.handle = HandleOf(c.db)]
           ELSE IF AdapterCheck(c.adapter) = "throwAdapterRequired"
             THEN ConfigurationError(NewInvocation(p), ErrAdapterRequired)
           ELSE IF OpensTransaction(c.adapter, c.db)
             THEN [NewInvocation(p) EXCEPT
                     !.handle = TransactionHandle(HandleOf(c.db), Trx(v)),
                     !.began = <<HandleOf(c.db)>>,
                     !.trx = "open"]
           ELSE [NewInvocation(p) EXCEPT
                   !.handle = TransactionHandle(HandleOf(c.db), HandleOf(c.db)),
                   !.began = <<HandleOf(c.db)>>,
                   !.trx = "passthrough"]
     IN invs' = Append(invs, inv)
  /\ UNCHANGED <<chains, arrays, store>>

Invoke(p) == InvokeUpTo(p, MaxInvokes)

\* Variant that looks for a usable value among the results.
HasResultsDefined(results) ==
  \E k \in DOMAIN results :
    results[k].kind # "undefined" /\ results[k].env # "error"

\* Variant testing only that results is an object.
HasResultsAlways(results) == TRUE

\* const hasResults = results && Object.keys(results).length > 0
HasResults(results) == Len(results) > 0

\* Variant walking the tasks from the end.
TaskAtReversed(tasks, i) == tasks[Len(tasks) - i]

\* this.tasks[i]
TaskAt(tasks, i) == tasks[i + 1]

\* One entry of the log of calls made into user code.
Call(task, attempt, callee, arg, handle, results) ==
  [task |-> task, attempt |-> attempt, callee |-> callee, arg |-> arg,
   handle |-> handle, acc |-> results]

\* Variant of the task without the fall-back to fn(db): what fn(results)
\* returned is taken as the step's operation.
TaskCallsNoFallback(id, att, handle, results, shape) ==
  IF ~HasResults(results)
    THEN <<Call(id, att, "fn", "handle", handle, results)>>
  ELSE IF shape = "function"
    THEN <<Call(id, att, "fn", "results", handle, results),
           Call(id, att, "dbFn", "handle", handle, results)>>
  ELSE <<Call(id, att, "fn", "results", handle, results)>>

\* Variant that calls fn(db) once more when the probe did not return a
\* function.
TaskCallsHandleTwice(id, att, handle, results, shape) ==
  IF ~HasResults(results)
    THEN <<Call(id, att, "fn", "handle", handle, results)>>
  ELSE IF shape = "function"
    THEN <<Call(id, att, "fn", "results", handle, results),
           Call(id, att, "dbFn", "handle", handle, results)>>
  ELSE <<Call(id, att, "fn", "results", handle, results),
         Call(id, att, "fn", "handle", handle, results),
         Call(id, att, "fn", "handle", handle, results)>>

\* The calls the task makes into user code up to its await.  With an empty
\* accumulator fn(db) is called.  Otherwise fn(results) is called first; if
\* it returns a function that function is called with db, and if it returns
\* anything else or throws, fn(db) is called.
TaskCalls(id, att, handle, results, shape) ==
  IF ~HasResults(results)
    THEN <<Call(id, att, "fn", "handle", handle, results)>>
  ELSE IF shape = "function"
    THEN <<Call(id, att, "fn", "results", handle, results),
           Call(id, att, "dbFn", "handle", handle, results)>>
  ELSE <<Call(id, att, "fn", "results", handle, results),
         Call(id, att, "fn", "handle", handle, results)>>

\* The loop body up to its await: tasks[i](handle, results) is called, the
\* task decides how to call fn, and the operation is in flight.  shape is
\* what fn(results) turns out to do: return a function, return something
\* else, or throw; for the call fn(db) it is whether fn runs its operation
\* ("direct"), returns a function without running anything ("factory"), or
\* runs an operation that resolves with undefined ("void").
CallTask(v, shape) ==
  LET inv == invs[v]
      tasks == Tasks(inv.chain)
  IN /\ inv.pc \in {"loop", "retry"}
     /\ inv.i < Len(tasks)
     /\ LET task == TaskAt(tasks, inv.i)
            att == inv.attempt + 1
        IN /\ IF HasResults(inv.results)
                THEN shape \in {"function", "value", "throws"}
                ELSE shape \in {"direct", "factory", "void"}
           /\ invs' = [invs EXCEPT ![v] =
                [inv EXCEPT !.pc = "op",
                            !.attempt = att,
                            !.via = IF shape = "function" THEN "accessor"
                                    ELSE IF shape = "factory" THEN "factory"
                                    ELSE IF shape = "void" THEN "void"
                                    ELSE "service",
                            !.calls = inv.calls \o
                              TaskCalls(task.id, att, inv.handle, inv.results,
                                        shape)]]
     /\ UNCHANGED <<chains, arrays, store>>

\* Variant that captures a failure before the retries are used up.
PolicyOnFailureCaptureFirst(options, attempt) ==
  IF options.given /\ options.withoutThrow THEN "capture"
  ELSE IF options.given /\ attempt <= options.retry THEN "retry"
  ELSE "throw"

\* Variant that counts the first attempt among the retries.
PolicyOnFailureOneFewer(options, attempt) ==
  IF options.given /\ attempt < options.retry THEN "retry"
  ELSE IF options.given /\ options.withoutThrow THEN "capture"
  ELSE "throw"

\* The step policy executor (CoreChains of @tool-chain/core) deciding what a
\* failed attempt leads to.
PolicyOnFailure(options, attempt) ==
  IF options.given /\ attempt <= options.retry THEN "retry"
  ELSE IF options.given /\ options.withoutThrow THEN "capture"
  ELSE "throw"

\* ... and what a successful attempt's value is delivered as.
PolicyOnSuccess(options, value) ==
  IF options.given /\ options.withoutThrow THEN DataEnvelope(value) ELSE value

\* Variant that writes under a single key, whatever the step.
RecordUnderOneKey(results, i, lastResult) == <<lastResult>>

\* results[`r${i + 1}`] = lastResult
Record(results, i, lastResult) ==
  [k \in 1..(IF i + 1 > Len(results) THEN i + 1 ELSE Len(results)) |->
     IF k = i + 1 THEN lastResult
     ELSE IF k <= Len(results) THEN results[k] ELSE Undefined]

\* Variant in which the loop swallows the rejection and goes on.
ThrownSwallowed(inv, e) ==
  [inv EXCEPT !.pc = "loop", !.attempt = 0, !.via = "none", !.i = inv.i + 1]

\* A task that rejected with e: the loop is left; in an open transaction
\* the callback rejects and the adapter has to roll back.
Thrown(inv, e) ==
  [inv EXCEPT !.pc = IF inv.trx = "open" THEN "rollback" ELSE "rejected",
              !.outcome = e]

\* Variant in which the loop treats an {error} envelope as a failure.
RecordedAbortsOnError(inv, r) ==
  IF r.env = "error" THEN Thrown(inv, r)
  ELSE [inv EXCEPT !.pc = "loop", !.attempt = 0, !.via = "none",
                   !.lastResult = r,
                   !.results = Record(inv.results, inv.i, r),
                   !.i = inv.i + 1]

\* The loop body after the await of a task that resolved with r.
Recorded(inv, r) ==
  [inv EXCEPT !.pc = "loop", !.attempt = 0, !.via = "none",
              !.lastResult = r, !.results = Record(inv.results, inv.i, r),
              !.i = inv.i + 1]

\* Variant in which a failed attempt leaves its error in the accumulator
\* before the task is retried.
AttemptFailedLeavesError(inv, task, e) ==
  LET how == PolicyOnFailure(task.options, inv.attempt)
  IN IF how = "retry"
       THEN [inv EXCEPT !.pc = "retry",
                        !.results = Record(inv.results, inv.i,
                                           ErrorEnvelope(e))]
     ELSE IF how = "capture" THEN Recorded(inv, ErrorEnvelope(e))
     ELSE Thrown(inv, e)

\* An attempt of the task ended with e: the policy executor retries, or
\* captures e in an envelope the loop records, or rethrows e.
AttemptFailed(inv, task, e) ==
  LET how == PolicyOnFailure(task.options, inv.attempt)
  IN IF how = "retry" THEN [inv EXCEPT !.pc = "retry"]
     ELSE IF how = "capture" THEN Recorded(inv, ErrorEnvelope(e))
     ELSE Thrown(inv, e)

\* await Promise.resolve(fn(db)): the value of the operation fn ran or,
\* when fn returned a function, that function.
Resolved(task, attempt, via) ==
  IF via = "factory" THEN Fn(task, attempt)
  ELSE IF via = "void" THEN Void(task, attempt)
  ELSE Raw(task, attempt)

\* Variant in which the accumulator and the loop position belong to the
\* context: what one activation records, and its leaving the loop, show in
\* every running activation of a pipeline with the same context.
ActivationShared(v, after) ==
  [w \in DOMAIN invs |->
     IF w = v THEN after
     ELSE IF /\ chains[invs[w].chain].context = chains[invs[v].chain].context
             /\ invs[w].pc \in {"loop", "op", "retry"}
       THEN [invs[w] EXCEPT !.results = after.results,
                            !.pc = IF after.pc \in {"rejected", "rollback"}
                                     THEN after.pc ELSE @]
     ELSE invs[w]]

\* results and lastResult are locals of the call of executeSequentially()
\* or of the transaction callback: a step of activation v changes that
\* activation's record and no other.
Activation(v, after) == [invs EXCEPT ![v] = after]

\* The operation in flight settles: it may have written through its handle,
\* and it resolves (ok) or rejects.  A function that fn(db) returned is
\* resolved with as it is: nothing was run and nothing written.
Settle(v, ok, wrote) ==
  LET inv == invs[v]
      task == TaskAt(Tasks(inv.chain), inv.i)
      row == Row(v, task.id)
      buffered == wrote /\ inv.handle = Trx(v)
      seen == [inv EXCEPT
                 !.writes = IF buffered THEN inv.writes \cup {row}
                            ELSE inv.writes,
                 !.written = IF wrote THEN inv.written \cup {row}
                             ELSE inv.written,
                 !.settled = Append(inv.settled,
                    [task |-> task.id, attempt |-> inv.attempt, ok |-> ok,
                     via |-> inv.via])]
      e == StepError(task.id, inv.attempt)
  IN /\ inv.pc = "op"
     /\ inv.via = "factory" => (ok /\ ~wrote)
     /\ store' = IF wrote /\ ~buffered THEN store \cup {row} ELSE store
     /\ invs' = Activation(v,
          IF ok THEN
            Recorded(seen, PolicyOnSuccess(task.options,
                       Resolved(task.id, inv.attempt, inv.via)))
          ELSE IF inv.via = "accessor" THEN
            \* the catch around maybeDbFn(db): fn(db) is called instead
            [seen EXCEPT !.via = "fallback",
                         !.calls = Append(inv.calls,
                            Call(task.id, inv.attempt, "fn", "handle",
                                 inv.handle, inv.results))]
          ELSE AttemptFailed(seen, task, e))
     /\ UNCHANGED <<chains, arrays>>

\* Variant with a time limit on every task, options or not.
TimeoutAlways(options) == TRUE

\* Whether the policy executor runs the attempts of a task under a time limit.
TimeoutApplies(options) == options.given /\ options.timeout

\* The operation of an attempt left behind by its time limit: nothing
\* cancels it, the task that started it is still running.
Abandoned(inv, task) ==
  [task |-> task.id, attempt |-> inv.attempt, via |-> inv.via,
   acc |-> inv.results]

\* Variant in which the time limit is noted and the operation still awaited.
TimedOutAwaited(inv, task) ==
  [inv EXCEPT !.settled = Append(inv.settled,
      [task |-> task.id, attempt |-> inv.attempt, ok |-> FALSE,
       via |-> "timeout"])]

\* Variant in which an attempt that timed out is not retried.
TimedOutNotRetried(inv, task) ==
  LET left == [inv EXCEPT
                 !.pending = inv.pending \cup {Abandoned(inv, task)},
                 !.settled = Append(inv.settled,
                    [task |-> task.id, attempt |-> inv.attempt, ok |-> FALSE,
                     via |-> "timeout"])]
      e == TimeoutError(task.id, inv.attempt)
  IN IF task.options.withoutThrow THEN Recorded(left, ErrorEnvelope(e))
     ELSE Thrown(left, e)

\* The time limit of the attempt in flight elapsed: the attempt has failed
\* with a timeout error, and its operation is left in flight.
TimedOut(inv, task) ==
  LET left == [inv EXCEPT
                 !.pending = inv.pending \cup {Abandoned(inv, task)},
                 !.settled = Append(inv.settled,
                    [task |-> task.id, attempt |-> inv.attempt, ok |-> FALSE,
                     via |-> "timeout"])]
  IN AttemptFailed(left, task, TimeoutError(task.id, inv.attempt))

\* The timer of the attempt in flight fires before the operation settles.
Timeout(v) ==
  LET inv == invs[v]
      task == TaskAt(Tasks(inv.chain), inv.i)
  IN /\ inv.pc = "op"
     /\ TimeoutApplies(task.options)
     /\ invs' = [invs EXCEPT ![v] = TimedOut(inv, task)]
     /\ UNCHANGED <<chains, arrays, store>>

\* An abandoned operation x settles.  What it wrote goes where the handle
\* puts it: into the open transaction, into the store when the handle is not
\* transactional, nowhere when the transaction is over.  Its result is
\* dropped, but the task that awaited it still runs its catch: when the
\* function fn(results) returned rejects, fn(db) is called.
SettlePending(v, x, ok, wrote) ==
  LET inv == invs[v]
      row == Row(v, x.task)
      buffered == inv.handle = Trx(v)
      lands == wrote /\ (buffered => inv.trx = "open")
      rest == inv.pending \ {x}
  IN /\ x \in inv.pending
     /\ ok \/ x.via = "accessor"
     /\ store' = IF lands /\ ~buffered THEN store \cup {row} ELSE store
     /\ invs' = [invs EXCEPT ![v] =
          [inv EXCEPT
             !.writes = IF lands /\ buffered THEN inv.writes \cup {row}
                        ELSE inv.writes,
             !.written = IF lands THEN inv.written \cup {row}
                         ELSE inv.written,
             !.pending = IF ok THEN rest
                         ELSE rest \cup {[x EXCEPT !.via = "fallback"]},
             !.calls = IF ok THEN inv.calls
                       ELSE Append(inv.calls,
                              Call(x.task, x.attempt, "fn", "handle",
                                   inv.handle, x.acc))]]
     /\ UNCHANGED <<chains, arrays>>

\* Variant returning the first recorded result.
ReturnValueFirst(inv) ==
  IF Len(inv.results) > 0 THEN inv.results[1] ELSE inv.lastResult

\* return lastResult
ReturnValue(inv) == inv.lastResult

\* The loop ends: executeSequentially() returns; in an open transaction
\* the callback returns and the adapter has to commit.
Return(v) ==
  LET inv == invs[v]
  IN /\ inv.pc = "loop"
     /\ inv.i >= Len(Tasks(inv.chain))
     /\ invs' = [invs EXCEPT ![v] =
          IF inv.trx = "open"
            THEN [inv EXCEPT !.pc = "commit", !.outcome = ReturnValue(inv)]
            ELSE [inv EXCEPT !.pc = "resolved", !.outcome = ReturnValue(inv)]]
     /\ UNCHANGED <<chains, arrays, store>>

\* Variant in which the transaction is not committed.
CommitLost(v) ==
  LET inv == invs[v]
  IN /\ inv.pc = "commit"
     /\ invs' = [invs EXCEPT ![v] =
          [inv EXCEPT !.pc = "resolved", !.trx = "committed", !.writes = {}]]
     /\ UNCHANGED <<chains, arrays, store>>

\* adapter.transaction(): the callback resolved, the transaction commits.
Commit(v) ==
  LET inv == invs[v]
  IN /\ inv.pc = "commit"
     /\ store' = store \cup inv.writes
     /\ invs' = [invs EXCEPT ![v] =
          [inv EXCEPT !.pc = "resolved", !.trx = "committed", !.writes = {}]]
     /\ UNCHANGED <<chains, arrays>>

\* Variant in which the adapter rolls back and never rethrows.
RollbackHangs(v) ==
  LET inv == invs[v]
  IN /\ inv.pc = "rollback"
     /\ invs' = [invs EXCEPT ![v] =
          [inv EXCEPT !.trx = "rolledback", !.writes = {}]]
     /\ UNCHANGED <<chains, arrays, store>>

\* adapter.transaction(): the callback rejected, the transaction rolls back
\* and the error is rethrown.
Rollback(v) ==
  LET inv == invs[v]
  IN /\ inv.pc = "rollback"
     /\ invs' = [invs EXCEPT ![v] =
          [inv EXCEPT !.pc = "rejected", !.trx = "rolledback", !.writes = {}]]
     /\ UNCHANGED <<chains, arrays, store>>

Next ==
  \/ \E p \in 1..Len(chains), db \in Handles, a \in Adapters \cup {NoAdapter} :
       \/ Use(p, db, a)
       \/ Transaction(p, db, a)
  \/ \E p \in 1..Len(chains), o \in ChainOptions : Chain(p, o)
  \/ \E p \in 1..Len(chains) : Invoke(p)
  \/ \E v \in 1..Len(invs) :
       \/ \E shape \in {"direct", "function", "value", "throws"} :
            CallTask(v, shape)
       \/ \E ok \in BOOLEAN, wrote \in BOOLEAN : Settle(v, ok, wrote)
       \/ Return(v)
       \/ Commit(v)
       \/ Rollback(v)

\* Pipelines whose steps set no time limit, built and run in any order.
Spec == Init /\ [][Next]_vars

\* new Chains().use(db) or new Chains().transaction(db, adapter), next to
\* the unbound pipeline they were made from.
InitBound ==
  /\ \E t \in BOOLEAN :
       chains = << [context |-> NullContext, tasks |-> 1],
                   [context |->
                      DbContext("db", IF t THEN "adapter" ELSE NoAdapter, t),
                    tasks |-> 1] >>
  /\ arrays = << <<>> >>
  /\ store = {}
  /\ invs = <<>>

NextTimed ==
  \/ \E p \in 1..Len(chains), o \in TimedOptions : Chain(p, o)
  \/ \E p \in 1..Len(chains) : Invoke(p)
  \/ \E v \in 1..Len(invs) :
       \/ \E shape \in {"direct", "function", "value", "throws"} :
            CallTask(v, shape)
       \/ \E ok \in BOOLEAN, wrote \in BOOLEAN : Settle(v, ok, wrote)
       \/ Timeout(v)
       \/ \E x \in invs[v].pending, ok \in BOOLEAN, wrote \in BOOLEAN :
            SettlePending(v, x, ok, wrote)
       \/ Return(v)
       \/ Commit(v)
       \/ Rollback(v)

\* Bound pipelines whose steps may set a time limit.
SpecTimed == InitBound /\ [][NextTimed]_vars

NextRepeat ==
  \/ \E p \in 1..Len(chains) : Chain(p, NoOptions)
  \/ \E p \in 1..Len(chains) : InvokeUpTo(p, MaxRepeat)
  \/ \E v \in 1..Len(invs) :
       \/ \E shape \in {"direct", "function", "value", "throws"} :
            CallTask(v, shape)
       \/ \E ok \in BOOLEAN, wrote \in BOOLEAN : Settle(v, ok, wrote)
       \/ Return(v)
       \/ Commit(v)
       \/ Rollback(v)

\* Bound pipelines invoked more than once, the activations interleaving.
SpecRepeat == InitBound /\ [][NextRepeat]_vars

\* Variant in which a failed transaction is started over.
TransactionRejectedRestarted(inv, e) ==
  [inv EXCEPT !.pc = "loop", !.i = 0, !.attempt = 0, !.results = <<>>,
              !.lastResult = Undefined, !.trx = "open", !.writes = {},
              !.began = Append(inv.began, inv.began[1])]

\* return await adapter.transaction(...): a rejection of the adapter's call
\* is the rejection of invoke(); nothing catches it.
TransactionRejected(inv, e) ==
  [inv EXCEPT !.pc = "rejected", !.outcome = e, !.trx = "failed",
              !.writes = {}]

\* invoke() on a transactional pipeline whose adapter fails to begin the
\* transaction: the callback is never called.
BeginFails(p) ==
  /\ Len(invs) < MaxInvokes
  /\ LET c == chains[p].context
         v == Len(invs) + 1
     IN /\ InvokeDispatch(c) = "executeWithTransaction"
        /\ AdapterCheck(c.adapter) = "transaction"
        /\ OpensTransaction(c.adapter, c.db)
        /\ invs' = Append(invs,
             TransactionRejected(
               [NewInvocation(p) EXCEPT
                  !.handle = TransactionHandle(HandleOf(c.db), Trx(v)),
                  !.began = <<HandleOf(c.db)>>],
               AdapterError("BeginFailed")))
  /\ UNCHANGED <<chains, arrays, store>>

\* The callback resolved and the adapter fails to commit: nothing reaches
\* the store.
CommitFails(v) ==
  LET inv == invs[v]
  IN /\ inv.pc = "commit"
     /\ invs' = [invs EXCEPT ![v] =
          TransactionRejected(inv, AdapterError("CommitFailed"))]
     /\ UNCHANGED <<chains, arrays, store>>

\* The callback rejected and the adapter fails to roll back.
RollbackFails(v) ==
  LET inv == invs[v]
  IN /\ inv.pc = "rollback"
     /\ invs' = [invs EXCEPT ![v] =
          TransactionRejected(inv, AdapterError("RollbackFailed"))]
     /\ UNCHANGED <<chains, arrays, store>>

NextOpen ==
  \/ \E p \in 1..Len(chains), o \in ChainOptions : Chain(p, o)
  \/ \E p \in 1..Len(chains) : Invoke(p)
  \/ \E v \in 1..Len(invs) :
       \/ \E shape \in {"direct", "factory", "void", "function", "value",
                       "throws"} :
            CallTask(v, shape)
       \/ \E ok \in BOOLEAN, wrote \in BOOLEAN : Settle(v, ok, wrote)
       \/ Return(v)
       \/ Commit(v)
       \/ Rollback(v)
       \/ CommitFails(v)
       \/ RollbackFails(v)
  \/ \E p \in 1..Len(chains) : BeginFails(p)

\* Bound pipelines whose definitions may have the higher-order service
\* shape () => (db) => value or resolve with undefined, and whose adapter
\* may fail to begin, commit or roll back.
SpecOpen == InitBound /\ [][NextOpen]_vars

\* b = new Chains().use(db) or new Chains().transaction(db, adapter), and
\* P1 = b.chain(t): a bound pipeline with one step, ready to be forked.
InitFork ==
  /\ \E t \in BOOLEAN :
       LET c == DbContext("db", IF t THEN "adapter" ELSE NoAdapter, t)
       IN chains = << [context |-> c, tasks |-> 1],
                      [context |-> c, tasks |-> 2] >>
  /\ arrays = << <<>>, <<WrappedTask(2, NoOptions)>> >>
  /\ store = {}
  /\ invs = <<>>

\* Forks of a bound pipeline, invoked more than once, the activations
\* interleaving.
SpecFork == InitFork /\ [][NextRepeat]_vars

\* new Chains().transaction(db, adapter) for either kind of handle, next to
\* the unbound pipeline it was made from.
InitTransaction ==
  /\ \E db \in Handles :
       chains = << [context |-> NullContext, tasks |-> 1],
                   [context |-> DbContext(db, "adapter", TRUE),
                    tasks |-> 1] >>
  /\ arrays = << <<>> >>
  /\ store = {}
  /\ invs = <<>>

\* Transactional pipelines whose steps may set a time limit.
SpecTimedTransaction == InitTransaction /\ [][NextTimed]_vars

\* What the event loop and the environment owe a running activation: its
\* continuations are run, the adapter finishes, and the operation in flight
\* settles or its time limit elapses.
Progress ==
  \E v \in 1..Len(invs) :
    \/ \E shape \in {"direct", "function", "value", "throws"} :
         CallTask(v, shape)
    \/ \E ok \in BOOLEAN, wrote \in BOOLEAN : Settle(v, ok, wrote)
    \/ Timeout(v)
    \/ Return(v)
    \/ Commit(v)
    \/ Rollback(v)

\* Bound pipelines whose steps may set a time limit, every attempt of which
\* settles or times out.
SpecLive == InitBound /\ [][NextTimed]_vars /\ WF_vars(Progress)

\* Variant of the convenience classes that does not pass the adapter on.
ConvenienceContextBare(db, isTransaction) ==
  DbContext(db, NoAdapter, isTransaction)

\* The context a convenience class (ChainsWithKysely, ChainsWithTypeORM,
\* ChainsWithPrisma, ChainsWithDrizzle) binds: the handle with the adapter
\* written for it, held in the class's private field.
ConvenienceContext(db, isTransaction) ==
  DbContext(db, "adapter", isTransaction)

\* X.use(db): return new Chains().use(db, this.adapter).  The pipeline
\* shares the empty tasks array of the new Chains() it was made from.
ConvenienceUse(db) ==
  /\ Len(chains) < MaxChains
  /\ arrays' = Append(arrays, <<>>)
  /\ chains' = Append(chains, [context |-> ConvenienceContext(db, FALSE),
                               tasks |-> Len(arrays) + 1])
  /\ UNCHANGED <<store, invs>>

\* X.transaction(db): return new Chains().transaction(db, this.adapter).
ConvenienceTransaction(db) ==
  /\ Len(chains) < MaxChains
  /\ arrays' = Append(arrays, <<>>)
  /\ chains' = Append(chains, [context |-> ConvenienceContext(db, TRUE),
                               tasks |-> Len(arrays) + 1])
  /\ UNCHANGED <<store, invs>>

\* No pipeline yet: only a convenience class instance.
InitConvenience ==
  /\ chains = <<>>
  /\ arrays = <<>>
  /\ store = {}
  /\ invs = <<>>

NextConvenience ==
  \/ \E db \in Handles :
       \/ ConvenienceUse(db)
       \/ ConvenienceTransaction(db)
  \/ \E p \in 1..Len(chains) : Chain(p, NoOptions)
  \/ \E p \in 1..Len(chains) : Invoke(p)
  \/ \E v \in 1..Len(invs) :
       \/ \E shape \in {"direct", "function", "value", "throws"} :
            CallTask(v, shape)
       \/ \E ok \in BOOLEAN, wrote \in BOOLEAN : Settle(v, ok, wrote)
       \/ Return(v)
       \/ Commit(v)
       \/ Rollback(v)

\* Pipelines obtained from the convenience classes, built on and run.
SpecConvenience == InitConvenience /\ [][NextConvenience]_vars

\* ------------------------------------------------------------ properties
\* Helpers over an activation's history.
HandleCalls(inv) == SelectSeq(inv.calls, LAMBDA c : c.arg = "handle")
Failures(inv) == SelectSeq(inv.settled, LAMBDA x : ~x.ok)
TaskIds(p) == {Tasks(p)[k].id : k \in 1..Len(Tasks(p))}
Pos(p, id) == CHOOSE k \in 1..Len(Tasks(p)) : Tasks(p)[k].id = id
Captures(task) == task.options.given /\ task.options.withoutThrow
\* The error an attempt logged as x ended with.
ErrorOf(x) ==
  IF x.via = "timeout" THEN TimeoutError(x.task, x.attempt)
  ELSE StepError(x.task, x.attempt)
IsTransactional(inv) ==
  /\ chains[inv.chain].context # NullContext
  /\ chains[inv.chain].context.isTransaction
  /\ chains[inv.chain].context.adapter # NoAdapter

\* C1: in a non-transactional invoke() in which no operation fails, the n-th
\* operation started is that of the n-th task, and every call made for the
\* n-th task is given an accumulator holding exactly the recorded results of
\* tasks 1..n-1, in order.
C1_StepsInOrderWithPriorResults ==
  \A v \in DOMAIN invs :
    LET inv == invs[v]
        tasks == Tasks(inv.chain)
        hc == HandleCalls(inv)
    IN (inv.trx = "none" /\ Len(Failures(inv)) = 0) =>
         /\ Len(hc) <= Len(tasks)
         /\ \A n \in DOMAIN hc : hc[n].task = tasks[n].id
         /\ \A n \in DOMAIN inv.calls :
              LET c == inv.calls[n]
                  k == Pos(inv.chain, c.task)
              IN /\ c.task \in TaskIds(inv.chain)
                 /\ Len(c.acc) = k - 1
                 /\ \A j \in 1..(k - 1) :
                      /\ c.acc[j] = inv.results[j]
                      /\ c.acc[j].task = tasks[j].id
                      /\ c.acc[j].kind = "value"

C1_Witness ==
  \E v \in DOMAIN invs :
    /\ invs[v].pc = "resolved"
    /\ invs[v].trx = "none"
    /\ Len(Tasks(invs[v].chain)) = 2
    /\ Len(Failures(invs[v])) = 0
    /\ Len(HandleCalls(invs[v])) = 2

\* C2: when invoke() resolves, in either mode, the value is the one recorded
\* for the last task: it was produced by the last task, and it is an envelope
\* exactly when the last task has withoutThrow.
C2_ResolvesToLastStepValue ==
  \A v \in DOMAIN invs :
    LET inv == invs[v]
        tasks == Tasks(inv.chain)
        n == Len(tasks)
    IN (inv.pc \in {"commit", "resolved"} /\ n > 0) =>
         /\ Len(inv.results) = n
         /\ inv.outcome = inv.results[n]
         /\ inv.outcome.task = tasks[n].id
         /\ (inv.outcome.env # "none") <=> Captures(tasks[n])

C2_Witness ==
  \E v \in DOMAIN invs :
    /\ invs[v].pc = "resolved"
    /\ invs[v].trx = "committed"
    /\ Len(Tasks(invs[v].chain)) = 2
    /\ invs[v].outcome.env = "error"
    /\ invs[v].results[1].kind = "value"

\* The last operation of inv to settle was a failure its task neither
\* retries nor captures.
FinalFailure(inv) ==
  /\ Len(inv.settled) > 0
  /\ LET x == inv.settled[Len(inv.settled)]
         t == Tasks(inv.chain)[Pos(inv.chain, x.task)]
     IN /\ ~x.ok
        /\ x.via # "accessor"
        /\ ~Captures(t)
        /\ x.attempt = t.options.retry + 1

\* C3: a task without error capture whose last allowed attempt fails ends the
\* invoke(): it rejects with that task's error (after the rollback, in a
\* transaction) and no call is ever made for a later task; and invoke()
\* rejects with a step error only in that way.
C3_UncapturedFailureAborts ==
  \A v \in DOMAIN invs :
    LET inv == invs[v]
        x == inv.settled[Len(inv.settled)]
        k == Pos(inv.chain, x.task)
    IN /\ FinalFailure(inv) =>
            /\ inv.pc \in {"rollback", "rejected"}
            /\ inv.outcome = ErrorOf(x)
            /\ inv.i = k - 1
            /\ \A n \in DOMAIN inv.calls :
                 Pos(inv.chain, inv.calls[n].task) <= k
       /\ (inv.pc \in {"rollback", "rejected"}
             /\ inv.outcome.kind \in {"Error", "Timeout"})
            => FinalFailure(inv)

C3_Witness ==
  \E v \in DOMAIN invs :
    /\ invs[v].pc = "rejected"
    /\ invs[v].trx = "rolledback"
    /\ FinalFailure(invs[v])
    /\ Len(Tasks(invs[v].chain)) = 2
    /\ invs[v].i = 0
    /\ invs[v].attempt = 2

\* C4: after a transactional invoke() has rejected because a task threw, no
\* row written by the tasks that ran before the failing one is in the store.
C4_RollbackRestoresStore ==
  \A v \in DOMAIN invs :
    LET inv == invs[v]
    IN (IsTransactional(inv) /\ inv.pc = "rejected"
          /\ inv.outcome.kind = "Error") =>
         {r \in store : r.inv = v /\ Pos(inv.chain, r.task) <= inv.i} = {}

\* The same for the invocations whose adapter opened a transaction, together
\* with what makes it so: nothing they write is in the store before the
\* commit, and the rollback drops what was written.
C4_OpenedTransactionRollsBack ==
  \A v \in DOMAIN invs :
    LET inv == invs[v]
    IN (IsTransactional(inv) /\ inv.trx # "passthrough") =>
         /\ inv.pc \in {"loop", "op", "retry", "rollback", "commit"} =>
              {r \in store : r.inv = v} = {}
         /\ (inv.pc = "rejected" /\ inv.outcome.kind = "Error") =>
              /\ inv.trx = "rolledback"
              /\ inv.writes = {}
              /\ {r \in store : r.inv = v} = {}

C6_PipelinesKept ==
  \A p \in DOMAIN chains :
    /\ chains'[p] = chains[p]
    /\ arrays'[chains[p].tasks] = arrays[chains[p].tasks]

\* C6: appending a step never alters the pipeline it is appended to - the
\* context and the task sequence of every existing pipeline stay as they are
\* at every step, chain() included - and an invoke() on a pipeline never
\* calls a step appended to make a later pipeline.
C6_ChainLeavesPipelineUnchanged ==
  /\ [](\A v \in DOMAIN invs :
          \A n \in DOMAIN invs[v].calls :
            invs[v].calls[n].task <= invs[v].chain)
  /\ [][C6_PipelinesKept]_vars

C6_Witness ==
  \E v \in DOMAIN invs :
    \E q \in DOMAIN chains :
      LET inv == invs[v]
          p == inv.chain
      IN /\ inv.pc = "resolved"
         /\ Len(inv.calls) > 0
         /\ p < q /\ q <= inv.born
         /\ Len(Tasks(q)) = Len(Tasks(p)) + 1
         /\ SubSeq(Tasks(q), 1, Len(Tasks(p))) = Tasks(p)
         /\ Tasks(q)[Len(Tasks(q))].id = q
         /\ chains[q].context = chains[p].context

\* C7: invoke() on a pipeline whose context is null rejects with the
\* "Database not set" error and calls nothing, whatever tasks it holds.
C7_UnboundInvokeRejects ==
  \A v \in DOMAIN invs :
    LET inv == invs[v]
    IN chains[inv.chain].context = NullContext =>
         /\ inv.pc = "rejected"
         /\ inv.outcome = ErrDatabaseNotSet
         /\ inv.calls = <<>>
         /\ inv.i = 0

C7_Witness ==
  \E v \in DOMAIN invs :
    /\ chains[invs[v].chain].context = NullContext
    /\ Len(Tasks(invs[v].chain)) = 2
    /\ invs[v].pc = "rejected"

\* C8: invoke() on a transactional pipeline without an adapter rejects with
\* the "Adapter is required" error before any call: no transaction is opened,
\* no task is run against the bound handle and nothing is written.
C8_MissingAdapterRejects ==
  \A v \in DOMAIN invs :
    LET inv == invs[v]
        c == chains[inv.chain].context
    IN (c # NullContext /\ c.isTransaction /\ c.adapter = NoAdapter) =>
         /\ inv.pc = "rejected"
         /\ inv.outcome = ErrAdapterRequired
         /\ inv.trx = "none"
         /\ inv.calls = <<>>
         /\ inv.written = {}

C8_Witness ==
  \E v \in DOMAIN invs :
    LET c == chains[invs[v].chain].context
    IN /\ c # NullContext /\ c.isTransaction /\ c.adapter = NoAdapter
       /\ Len(Tasks(invs[v].chain)) >= 1
       /\ invs[v].pc = "rejected"

BadConfiguration(c) ==
  \/ c = NullContext
  \/ c.isTransaction /\ c.adapter = NoAdapter

\* C9: a configuration error is thrown as it is, whatever the options of the
\* tasks: the invoke() never resolves, its error is the raw configuration
\* error and not an envelope, no attempt of any task is made; and only a
\* bad configuration produces it.
C9_ConfigurationErrorNotCaptured ==
  \A v \in DOMAIN invs :
    LET inv == invs[v]
        config == inv.outcome.kind \in {ErrDatabaseNotSet.kind,
                                        ErrAdapterRequired.kind}
    IN /\ BadConfiguration(chains[inv.chain].context) =>
            /\ inv.pc # "resolved"
            /\ config
            /\ inv.outcome.env = "none"
            /\ inv.attempt = 0
            /\ inv.settled = <<>>
       /\ config => BadConfiguration(chains[inv.chain].context)

C9_Witness ==
  \E v \in DOMAIN invs :
    LET tasks == Tasks(invs[v].chain)
    IN /\ BadConfiguration(chains[invs[v].chain].context)
       /\ invs[v].pc = "rejected"
       /\ Len(tasks) >= 1
       /\ \A k \in DOMAIN tasks :
            Captures(tasks[k]) /\ tasks[k].options.retry > 0

\* C10: a failure of a task with withoutThrow does not end the invoke(): the
\* {error} envelope of the last attempt's error is recorded under that task's
\* key, the invoke() does not reject with that task's error, the calls made
\* for later tasks are given the accumulator holding that envelope, and only
\* such a task has an {error} envelope recorded.
C10_CapturedErrorContinues ==
  \A v \in DOMAIN invs :
    LET inv == invs[v]
        tasks == Tasks(inv.chain)
    IN /\ \A k \in DOMAIN inv.results :
            inv.results[k].env = "error" =>
              /\ Captures(tasks[k])
              /\ inv.results[k].kind \in {"Error", "Timeout"}
              /\ inv.results[k].task = tasks[k].id
       /\ \A n \in DOMAIN inv.settled :
            LET x == inv.settled[n]
                k == Pos(inv.chain, x.task)
            IN (/\ ~x.ok
                /\ x.via # "accessor"
                /\ Captures(tasks[k])
                /\ x.attempt = tasks[k].options.retry + 1) =>
                 /\ inv.i >= k
                 /\ Len(inv.results) >= k
                 /\ inv.results[k] = ErrorEnvelope(ErrorOf(x))
                 /\ (inv.outcome.kind \in {"Error", "Timeout"}
                       /\ inv.outcome.env = "none")
                      => inv.outcome.task # x.task
       /\ \A n \in DOMAIN inv.calls :
            LET c == inv.calls[n]
            IN /\ Len(c.acc) = Pos(inv.chain, c.task) - 1
               /\ \A j \in DOMAIN c.acc : c.acc[j] = inv.results[j]

C10_Witness ==
  \E v \in DOMAIN invs :
    LET inv == invs[v]
    IN /\ inv.pc = "resolved"
       /\ Len(inv.results) = 2
       /\ inv.results[1].env = "error"
       /\ inv.results[2].kind = "value"
       /\ \E n \in DOMAIN inv.calls :
            /\ inv.calls[n].task = Tasks(inv.chain)[2].id
            /\ inv.calls[n].acc = <<inv.results[1]>>
\* How the attempts of task id made so far in inv ended, in order.  A
\* rejection of the function fn(results) returned does not end the attempt:
\* the task goes on to fn(db).
AttemptEnds(inv, id) ==
  SelectSeq(inv.settled,
            LAMBDA x : x.task = id /\ (x.ok \/ x.via # "accessor"))

\* C11: for a task with retry = N and no error capture, the attempts are
\* numbered 1, 2, ... and never exceed N+1; only the last one made can have
\* succeeded, and then the recorded value is that attempt's; a failed
\* attempt m <= N is followed by a retry and not by a rejection; when
\* attempt N+1 has failed invoke() rejects with its error, and invoke()
\* rejects with the task's error only after exactly N+1 failed attempts.
\* Every attempt of a task is given the same handle and accumulator.
C11_RetryAttemptsBounded ==
  \A v \in DOMAIN invs :
    LET inv == invs[v]
        tasks == Tasks(inv.chain)
    IN /\ \A n \in DOMAIN inv.calls :
            inv.calls[n].attempt <=
              tasks[Pos(inv.chain, inv.calls[n].task)].options.retry + 1
       /\ \A n, n2 \in DOMAIN inv.calls :
            inv.calls[n].task = inv.calls[n2].task =>
              /\ inv.calls[n].acc = inv.calls[n2].acc
              /\ inv.calls[n].handle = inv.calls[n2].handle
       /\ \A k \in DOMAIN tasks :
            LET t == tasks[k]
                N == t.options.retry
                ends == AttemptEnds(inv, t.id)
                m == Len(ends)
                rejectedByTask ==
                  /\ inv.pc \in {"rollback", "rejected"}
                  /\ inv.outcome.kind \in {"Error", "Timeout"}
                  /\ inv.outcome.task = t.id
            IN ~Captures(t) =>
                 /\ m <= N + 1
                 /\ \A j \in 1..m :
                      /\ ends[j].attempt = j
                      /\ ends[j].ok => j = m
                 /\ (m > 0 /\ ends[m].ok) =>
                      /\ inv.i >= k
                      /\ inv.results[k] = Raw(t.id, m)
                 /\ (m > 0 /\ ~ends[m].ok /\ m <= N) =>
                      /\ inv.i = k - 1
                      /\ inv.pc \in {"retry", "op"}
                      /\ inv.attempt \in {m, m + 1}
                 /\ (m = N + 1 /\ ~ends[m].ok) =>
                      /\ rejectedByTask
                      /\ inv.outcome = ErrorOf(ends[m])
                 /\ rejectedByTask => (m = N + 1 /\ ~ends[m].ok)

C11_Witness ==
  \E v \in DOMAIN invs :
    LET inv == invs[v]
        tasks == Tasks(inv.chain)
    IN /\ inv.pc = "resolved"
       /\ Len(tasks) = 2
       /\ tasks[2].options.retry = MaxRetry
       /\ ~Captures(tasks[2])
       /\ Len(AttemptEnds(inv, tasks[2].id)) = MaxRetry + 1
       /\ inv.outcome = Raw(tasks[2].id, MaxRetry + 1)

\* C12: for a task with withoutThrow and retry = R, the attempts are numbered
\* 1, 2, ... up to R+1 at most and only the last one made can have succeeded.
\* If the operation succeeds on attempt m (after m-1 <= R failures) the
\* recorded result is {data: value of attempt m}; if attempt R+1 fails too
\* the recorded result is {error: the error of attempt R+1}; nothing is
\* recorded before that, and invoke() never rejects with the task's error.
C12_CaptureAfterRetries ==
  \A v \in DOMAIN invs :
    LET inv == invs[v]
        tasks == Tasks(inv.chain)
    IN \A k \in DOMAIN tasks :
         LET t == tasks[k]
             R == t.options.retry
             ends == AttemptEnds(inv, t.id)
             m == Len(ends)
         IN Captures(t) =>
              /\ m <= R + 1
              /\ \A j \in 1..m :
                   /\ ends[j].attempt = j
                   /\ ends[j].ok => j = m
              /\ (m > 0 /\ ends[m].ok) =>
                   /\ inv.i >= k
                   /\ inv.results[k] = DataEnvelope(Raw(t.id, m))
              /\ (m = R + 1 /\ ~ends[m].ok) =>
                   /\ inv.i >= k
                   /\ inv.results[k] = ErrorEnvelope(ErrorOf(ends[m]))
              /\ (m > 0 /\ ~ends[m].ok /\ m <= R) =>
                   /\ inv.i = k - 1
                   /\ Len(inv.results) < k
              /\ Len(inv.results) >= k =>
                   /\ m > 0
                   /\ inv.results[k].attempt = m
                   /\ inv.results[k].env = IF ends[m].ok THEN "data" ELSE "error"
              /\ ~(/\ inv.pc \in {"rollback", "rejected"}
                   /\ inv.outcome.task = t.id)

C12_Witness ==
  \E v \in DOMAIN invs :
    LET inv == invs[v]
        tasks == Tasks(inv.chain)
    IN /\ inv.pc = "resolved"
       /\ Len(tasks) = 2
       /\ \A k \in 1..2 :
            Captures(tasks[k]) /\ tasks[k].options.retry = MaxRetry
       /\ inv.results[1] = DataEnvelope(Raw(tasks[1].id, MaxRetry + 1))
       /\ inv.results[2] =
            ErrorEnvelope(StepError(tasks[2].id, MaxRetry + 1))

\* The calls made into user code for attempt a of task id.
CallsOfAttempt(inv, id, a) ==
  SelectSeq(inv.calls, LAMBDA c : c.task = id /\ c.attempt = a)

\* C13: for the first task of a pipeline every attempt makes exactly one
\* call into user code: the definition fn, called with the invocation's
\* handle while the accumulator is empty.  fn is never called with the
\* accumulator, whether the attempt succeeds or fails.
C13_FirstStepIsDirect ==
  \A v \in DOMAIN invs :
    LET inv == invs[v]
        tasks == Tasks(inv.chain)
    IN Len(inv.calls) > 0 =>
         LET t == tasks[1]
             made == IF inv.i = 0 THEN inv.attempt
                     ELSE Len(AttemptEnds(inv, t.id))
         IN /\ made >= 1
            /\ \A a \in 1..made :
                 LET cs == CallsOfAttempt(inv, t.id, a)
                 IN /\ Len(cs) = 1
                    /\ cs[1].callee = "fn"
                    /\ cs[1].arg = "handle"
                    /\ cs[1].handle = inv.handle
                    /\ cs[1].acc = <<>>
            /\ \A n \in DOMAIN inv.calls :
                 inv.calls[n].task = t.id => inv.calls[n].attempt <= made

C13_Witness ==
  \E v \in DOMAIN invs :
    LET inv == invs[v]
        t == Tasks(inv.chain)[1]
    IN /\ inv.pc = "resolved"
       /\ Len(Tasks(inv.chain)) = 2
       /\ Len(AttemptEnds(inv, t.id)) = 2
       /\ ~AttemptEnds(inv, t.id)[1].ok
       /\ Len(CallsOfAttempt(inv, t.id, 1)) = 1
       /\ Len(CallsOfAttempt(inv, t.id, 2)) = 1

\* Attempt a of task id took fn for a results accessor: fn(results) returned
\* a function, which was called.
AccessorAttempt(inv, id, a) ==
  \E n \in DOMAIN inv.calls :
    /\ inv.calls[n].task = id
    /\ inv.calls[n].attempt = a
    /\ inv.calls[n].callee = "dbFn"

\* C14: in an attempt of a task at position k > 1 in which fn(results)
\* returns a function, fn is called with the accumulator and with nothing
\* else, the returned function is called with the invocation's handle, no
\* other call is made, and if the attempt yields a value it is the value the
\* returned function resolved with.
C14_AccessorGetsAccumulator ==
  \A v \in DOMAIN invs :
    LET inv == invs[v]
        tasks == Tasks(inv.chain)
    IN \A k \in DOMAIN tasks : \A a \in 1..(tasks[k].options.retry + 1) :
         LET id == tasks[k].id
             cs == CallsOfAttempt(inv, id, a)
         IN AccessorAttempt(inv, id, a) =>
              /\ k > 1
              /\ Len(cs) = 2
              /\ cs[1].callee = "fn" /\ cs[1].arg = "results"
              /\ cs[1].acc = SubSeq(inv.results, 1, k - 1)
              /\ cs[2].callee = "dbFn" /\ cs[2].arg = "handle"
              /\ cs[2].handle = inv.handle
              /\ \A n \in DOMAIN inv.settled :
                   LET x == inv.settled[n]
                   IN (x.task = id /\ x.attempt = a /\ x.ok) =>
                        x.via = "accessor"

\* The same for the attempts in which the returned function has not
\* rejected: fn(results), then the returned function with the handle, and
\* the value is the one that function resolved with.
C14_AccessorThatResolves ==
  \A v \in DOMAIN invs :
    LET inv == invs[v]
        tasks == Tasks(inv.chain)
    IN \A k \in DOMAIN tasks : \A a \in 1..(tasks[k].options.retry + 1) :
         LET id == tasks[k].id
             cs == CallsOfAttempt(inv, id, a)
             rejected == \E n \in DOMAIN inv.settled :
                           /\ inv.settled[n].task = id
                           /\ inv.settled[n].attempt = a
                           /\ inv.settled[n].via = "accessor"
                           /\ ~inv.settled[n].ok
         IN AccessorAttempt(inv, id, a) =>
              /\ k > 1
              /\ Len(cs) >= 2
              /\ cs[1].callee = "fn" /\ cs[1].arg = "results"
              /\ cs[1].acc = SubSeq(inv.results, 1, k - 1)
              /\ cs[2].callee = "dbFn" /\ cs[2].arg = "handle"
              /\ cs[2].handle = inv.handle
              /\ ~rejected =>
                   /\ Len(cs) = 2
                   /\ \A n \in DOMAIN inv.settled :
                        LET x == inv.settled[n]
                        IN (x.task = id /\ x.attempt = a /\ x.ok) =>
                             x.via = "accessor"

\* C15: in an attempt of a task at position k > 1 in which fn(results)
\* returns something that is not a function, or throws, the task falls back
\* to the direct call: after fn(results) exactly one more call is made,
\* fn with the invocation's handle, and the outcome of the attempt is the
\* outcome of that second call - its value is the step's value.
C15_FallsBackToDirectCall ==
  \A v \in DOMAIN invs :
    LET inv == invs[v]
        tasks == Tasks(inv.chain)
    IN \A k \in DOMAIN tasks : \A a \in 1..(tasks[k].options.retry + 1) :
         LET id == tasks[k].id
             cs == CallsOfAttempt(inv, id, a)
             xs == SelectSeq(inv.settled,
                             LAMBDA x : x.task = id /\ x.attempt = a)
         IN (k > 1 /\ Len(cs) > 0 /\ ~AccessorAttempt(inv, id, a)) =>
              /\ Len(cs) = 2
              /\ cs[1].callee = "fn" /\ cs[1].arg = "results"
              /\ cs[1].acc = SubSeq(inv.results, 1, k - 1)
              /\ cs[2].callee = "fn" /\ cs[2].arg = "handle"
              /\ cs[2].handle = inv.handle
              /\ Len(xs) <= 1
              /\ \A n \in DOMAIN xs : xs[n].via = "service"
              /\ (Len(xs) = 1 /\ xs[1].ok) =>
                   /\ Len(inv.results) >= k
                   /\ inv.results[k] =
                        PolicyOnSuccess(tasks[k].options, Raw(id, a))
              /\ (Len(xs) = 1 /\ ~xs[1].ok /\ inv.i = k - 1 /\ inv.attempt = a)
                   => inv.pc # "op"

C15_Witness ==
  \E v \in DOMAIN invs :
    LET inv == invs[v]
        tasks == Tasks(inv.chain)
    IN /\ inv.pc = "resolved"
       /\ Len(tasks) = 2
       /\ ~AccessorAttempt(inv, tasks[2].id, 1)
       /\ Len(CallsOfAttempt(inv, tasks[2].id, 1)) = 2
       /\ inv.outcome = Raw(tasks[2].id, 1)

\* The operations of inv that have been started and have not settled.
InFlight(inv) ==
  inv.pending \cup
    (IF inv.pc = "op"
       THEN {[task |-> TaskAt(Tasks(inv.chain), inv.i).id,
              attempt |-> inv.attempt, via |-> inv.via, acc |-> inv.results]}
       ELSE {})

\* C16: within one invoke(), whatever the options of the steps, at most one
\* operation is in flight at any time: an attempt or a step is started only
\* when every operation started before it has settled.
C16_OneOperationInFlight ==
  \A v \in DOMAIN invs : Cardinality(InFlight(invs[v])) <= 1

\* The ordering that does hold with time limits: a step is started only
\* when the results (or captured errors) of all steps before it are
\* recorded, and an attempt only when the attempts before it have ended, by
\* settling or by their time limit.
C16_StartedAfterRecord ==
  \A v \in DOMAIN invs :
    LET inv == invs[v]
        tasks == Tasks(inv.chain)
    IN /\ \A n \in DOMAIN inv.calls :
            LET c == inv.calls[n]
                k == Pos(inv.chain, c.task)
            IN /\ Len(c.acc) = k - 1
               /\ \A j \in 1..(k - 1) : c.acc[j] = inv.results[j]
               /\ \A a \in 1..(c.attempt - 1) :
                    \E m \in DOMAIN inv.settled :
                      /\ inv.settled[m].task = c.task
                      /\ inv.settled[m].attempt = a
                      /\ ~inv.settled[m].ok
       /\ \A x \in inv.pending :
            \E m \in DOMAIN inv.settled :
              /\ inv.settled[m].task = x.task
              /\ inv.settled[m].attempt = x.attempt
              /\ inv.settled[m].via = "timeout"

\* The attempts of task id that were ended by their time limit.
TimedOutAttempts(inv, id) ==
  SelectSeq(inv.settled, LAMBDA x : x.task = id /\ x.via = "timeout")

\* C17: for a task with a time limit, no retry and no error capture: once
\* the limit has elapsed on its operation the step has failed and invoke()
\* rejects with the timeout error (through the rollback, in a transaction),
\* whether or not the operation has settled since, and nothing is recorded
\* for the step; an operation that settles first keeps its outcome, and
\* its value is recorded as the step's.  A time limit elapses only on a
\* task that sets one.
C17_TimeoutRejectsWithoutWaiting ==
  \A v \in DOMAIN invs :
    LET inv == invs[v]
        tasks == Tasks(inv.chain)
    IN \A k \in DOMAIN tasks :
         LET t == tasks[k]
             outs == TimedOutAttempts(inv, t.id)
             ends == AttemptEnds(inv, t.id)
         IN /\ Len(outs) > 0 => TimeoutApplies(t.options)
            /\ (TimeoutApplies(t.options) /\ t.options.retry = 0
                  /\ ~Captures(t)) =>
                 /\ Len(outs) > 0 =>
                      /\ inv.pc \in {"rollback", "rejected"}
                      /\ inv.outcome = TimeoutError(t.id, 1)
                      /\ inv.i = k - 1
                      /\ Len(inv.results) = k - 1
                      /\ Len(ends) = 1
                 /\ (Len(ends) > 0 /\ ends[1].ok) =>
                      /\ Len(outs) = 0
                      /\ inv.i >= k
                      /\ inv.results[k] = Raw(t.id, 1)
                      /\ inv.pc \in {"rollback", "rejected"} =>
                           inv.outcome.task # t.id

C17_Witness ==
  \E v \in DOMAIN invs :
    LET inv == invs[v]
        tasks == Tasks(inv.chain)
    IN /\ inv.pc = "rejected"
       /\ Len(tasks) = 2
       /\ inv.results = <<Raw(tasks[1].id, 1)>>
       /\ TimeoutApplies(tasks[1].options)
       /\ inv.outcome = TimeoutError(tasks[2].id, 1)
       /\ \E x \in inv.pending : x.task = tasks[2].id

\* C18: for a task with a time limit and retry = R, with or without error
\* capture: each attempt can be ended by the limit, at most once; an attempt
\* m <= R that fails, by its limit or by its operation, is followed by a
\* retry, nothing being recorded or thrown yet; only when attempt R+1 has
\* failed is the error of that attempt recorded as {error} (withoutThrow) or
\* thrown; so an {error} or a rejection from the task means exactly R+1
\* failed attempts.
C18_RetryThenTimeoutThenCapture ==
  \A v \in DOMAIN invs :
    LET inv == invs[v]
        tasks == Tasks(inv.chain)
    IN \A k \in DOMAIN tasks :
         LET t == tasks[k]
             R == t.options.retry
             outs == TimedOutAttempts(inv, t.id)
             ends == AttemptEnds(inv, t.id)
             m == Len(ends)
             recorded == Len(inv.results) >= k
             thrown == /\ inv.pc \in {"rollback", "rejected"}
                       /\ inv.outcome.task = t.id
         IN TimeoutApplies(t.options) =>
              /\ m <= R + 1
              /\ \A j \in 1..m : ends[j].attempt = j
              /\ \A a, b \in DOMAIN outs :
                   outs[a].attempt = outs[b].attempt => a = b
              /\ (m > 0 /\ ~ends[m].ok /\ m <= R) =>
                   /\ ~recorded /\ ~thrown
                   /\ inv.i = k - 1
                   /\ inv.pc \in {"retry", "op"}
              /\ (m = R + 1 /\ ~ends[m].ok) =>
                   IF Captures(t)
                     THEN /\ recorded /\ ~thrown
                          /\ inv.results[k] = ErrorEnvelope(ErrorOf(ends[m]))
                     ELSE /\ thrown /\ ~recorded
                          /\ inv.outcome = ErrorOf(ends[m])
              /\ ((recorded /\ inv.results[k].env = "error") \/ thrown) =>
                   /\ m = R + 1
                   /\ \A j \in 1..m : ~ends[j].ok

C18_Witness ==
  \E v \in DOMAIN invs :
    LET inv == invs[v]
    IN /\ inv.pc = "resolved"
       /\ Len(Tasks(inv.chain)) = 1
       /\ LET t == Tasks(inv.chain)[1]
          IN /\ TimeoutApplies(t.options)
             /\ Captures(t)
             /\ t.options.retry = MaxRetry
             /\ Len(TimedOutAttempts(inv, t.id)) = MaxRetry + 1
             /\ inv.outcome = ErrorEnvelope(TimeoutError(t.id, MaxRetry + 1))

\* C19: a task appended without options is attempted once in an invoke() and
\* never again; no time limit ever ends its attempt; if the attempt succeeds
\* its raw value is what is recorded, not an envelope; if it fails the raw
\* error is thrown out of invoke() and nothing is recorded for the step.
C19_NoOptionsRunsOnce ==
  \A v \in DOMAIN invs :
    LET inv == invs[v]
        tasks == Tasks(inv.chain)
    IN \A k \in DOMAIN tasks :
         LET t == tasks[k]
             ends == AttemptEnds(inv, t.id)
         IN t.options = NoOptions =>
              /\ \A n \in DOMAIN inv.calls :
                   inv.calls[n].task = t.id => inv.calls[n].attempt = 1
              /\ (inv.i = k - 1) => inv.attempt <= 1
              /\ Len(ends) <= 1
              /\ Len(TimedOutAttempts(inv, t.id)) = 0
              /\ \A x \in inv.pending : x.task # t.id
              /\ (Len(ends) = 1 /\ ends[1].ok) =>
                   /\ inv.i >= k
                   /\ inv.results[k] = Raw(t.id, 1)
                   /\ inv.results[k].env = "none"
              /\ (Len(ends) = 1 /\ ~ends[1].ok) =>
                   /\ inv.pc \in {"rollback", "rejected"}
                   /\ inv.outcome = StepError(t.id, 1)
                   /\ inv.outcome.env = "none"
                   /\ Len(inv.results) = k - 1

C19_Witness ==
  \E v \in DOMAIN invs :
    LET inv == invs[v]
        tasks == Tasks(inv.chain)
    IN /\ inv.pc = "rejected"
       /\ Len(tasks) = 2
       /\ tasks[1].options = NoOptions
       /\ tasks[2].options = NoOptions
       /\ inv.results = <<Raw(tasks[1].id, 1)>>
       /\ inv.outcome = StepError(tasks[2].id, 1)
       /\ Len(inv.settled) = 2

\* C20: in a transactional invoke() adapter.transaction() is called exactly
\* once, with the bound handle, and every call made for every attempt of
\* every task is given the handle the adapter supplied, which is not the
\* bound handle.
C20_StepsGetTransactionalHandle ==
  \A v \in DOMAIN invs :
    LET inv == invs[v]
        bound == HandleOf(chains[inv.chain].context.db)
    IN IsTransactional(inv) =>
         /\ inv.began = <<bound>>
         /\ \A n \in DOMAIN inv.calls :
              /\ inv.calls[n].handle = inv.handle
              /\ inv.calls[n].handle # bound

\* The same for the adapter calls that open a transaction: the tasks get the
\* transaction's handle; and a non-transactional invoke() never calls the
\* adapter and gives the tasks the bound handle.
C20_OpenedTransactionHandle ==
  \A v \in DOMAIN invs :
    LET inv == invs[v]
        c == chains[inv.chain].context
    IN /\ (IsTransactional(inv) /\ inv.trx # "passthrough") =>
            /\ inv.began = <<HandleOf(c.db)>>
            /\ inv.handle = Trx(v)
            /\ \A n \in DOMAIN inv.calls :
                 /\ inv.calls[n].handle = Trx(v)
                 /\ inv.calls[n].handle # HandleOf(c.db)
       /\ IsTransactional(inv) => inv.began = <<HandleOf(c.db)>>
       /\ ~IsTransactional(inv) =>
            /\ inv.began = <<>>
            /\ \A n \in DOMAIN inv.calls :
                 inv.calls[n].handle = HandleOf(c.db)

\* C21: adapter.transaction(handle, fn) commits if and only if fn resolves
\* and rolls back if and only if fn rejects, whatever the handle: a
\* transactional invoke() that has resolved went through a commit, one that
\* has rejected with a step's error went through a rollback, and until the
\* commit nothing the tasks wrote is in the store.
C21_AdapterCommitsOrRollsBack ==
  \A v \in DOMAIN invs :
    LET inv == invs[v]
    IN IsTransactional(inv) =>
         /\ inv.pc = "resolved" => inv.trx = "committed"
         /\ (inv.pc = "rejected" /\ inv.outcome.kind = "Error") =>
              inv.trx = "rolledback"
         /\ inv.trx # "committed" => {r \in store : r.inv = v} = {}

\* The same for the adapter calls that hand the handle to the ORM's
\* transaction call (every adapter and handle but TypeORMAdapter with an
\* EntityManager).
C21_OpeningAdapterCommitsOrRollsBack ==
  \A v \in DOMAIN invs :
    LET inv == invs[v]
        c == chains[inv.chain].context
    IN (IsTransactional(inv) /\ OpensTransaction(c.adapter, c.db)) =>
         /\ inv.trx \in {"open", "committed", "rolledback"}
         /\ inv.pc = "resolved" => inv.trx = "committed"
         /\ (inv.pc = "rejected" /\ inv.outcome.kind = "Error") =>
              inv.trx = "rolledback"
         /\ inv.trx = "committed" => inv.pc = "resolved"
         /\ inv.trx = "rolledback" => inv.pc = "rejected"
         /\ inv.trx # "committed" => {r \in store : r.inv = v} = {}

\* What use() or transaction() on pipeline p has to leave behind: one more
\* pipeline, with the given context and p's task sequence; p and every
\* other pipeline as they were.
C22_Rebound(p, context) ==
  LET q == Len(chains) + 1
  IN /\ Len(chains') = q
     /\ chains'[q].context = context
     /\ arrays'[chains'[q].tasks] = Tasks(p)
     /\ Len(Tasks(p)) = 0 => Len(arrays'[chains'[q].tasks]) = 0
     /\ \A r \in DOMAIN chains :
          /\ chains'[r] = chains[r]
          /\ arrays'[chains[r].tasks] = arrays[chains[r].tasks]

\* C22: use(db, adapter) and transaction(db, adapter) called on any
\* pipeline, with steps or without, return a new pipeline with the same task
\* sequence and the new context (handle, adapter, transaction flag), and
\* leave the pipeline they were called on with its context and its task
\* sequence; called on a pipeline without steps they give one without steps.
C22_RebindKeepsTasks ==
  [][\A p \in DOMAIN chains, db \in Handles, a \in Adapters \cup {NoAdapter} :
       /\ Use(p, db, a) => C22_Rebound(p, DbContext(db, a, FALSE))
       /\ Transaction(p, db, a) => C22_Rebound(p, DbContext(db, a, TRUE))]_vars

C22_Witness ==
  \E p, q \in DOMAIN chains :
    /\ p < q
    /\ chains[p].context # NullContext
    /\ chains[q].context # chains[p].context
    /\ chains[q].context.isTransaction
    /\ Len(Tasks(p)) = 1
    /\ Tasks(q) = Tasks(p)
    /\ Tasks(q)[1].id < p

\* C23: every invoke() on a pipeline starts from an empty accumulator, runs
\* the pipeline's own task sequence and is given the pipeline's bound handle.
\* What an earlier invoke() recorded is never passed to a later one: the
\* first call of every activation is the direct call of the first task with
\* the handle and an empty accumulator, and every call for the task at
\* position k sees exactly the k-1 results its own activation recorded.
\* invoke() and the steps it runs leave every pipeline's tasks and context
\* as they were.
C23_StartsAfresh ==
  \A v \in DOMAIN invs :
    LET inv == invs[v]
        tasks == Tasks(inv.chain)
        c == chains[inv.chain].context
    IN /\ Len(inv.results) <= Len(tasks)
       /\ \A k \in DOMAIN inv.results : inv.results[k].task = tasks[k].id
       /\ Len(inv.calls) > 0 =>
            /\ c # NullContext
            /\ inv.calls[1] =
                 Call(tasks[1].id, 1, "fn", "handle", inv.handle, <<>>)
            /\ IF inv.trx = "none" THEN inv.handle = HandleOf(c.db)
               ELSE inv.began = <<HandleOf(c.db)>>
       /\ \A n \in DOMAIN inv.calls :
            LET call == inv.calls[n]
                k == Pos(inv.chain, call.task)
            IN /\ call.task \in TaskIds(inv.chain)
               /\ Len(call.acc) = k - 1
               /\ Len(call.acc) <= Len(inv.results)
               /\ call.acc = SubSeq(inv.results, 1, Len(call.acc))
               /\ call.handle = inv.handle

C23_InvokeLeavesPipeline ==
  (invs' # invs) => (chains' = chains /\ arrays' = arrays)

C23_EachInvokeStartsAfresh ==
  [](C23_StartsAfresh) /\ [][C23_InvokeLeavesPipeline]_vars

C23_Witness ==
  \E v, w \in DOMAIN invs :
    /\ v < w
    /\ invs[v].chain = invs[w].chain
    /\ invs[v].pc = "resolved"
    /\ Len(invs[v].results) = 2
    /\ Len(invs[w].calls) > 0
    /\ invs[w].calls[1].acc = <<>>
    /\ Len(invs[w].results) = 2
    /\ invs[w].handle # invs[v].handle

\* C24: an invoke() that rejected because a step failed leaves, when it is
\* not transactional, every row its steps wrote in the store, and, when it
\* is transactional, no row of its steps in the store.
C24_FailedInvokeSideEffects ==
  \A v \in DOMAIN invs :
    LET inv == invs[v]
    IN (inv.pc = "rejected" /\ FinalFailure(inv)) =>
         IF IsTransactional(inv)
           THEN {r \in store : r.inv = v} = {}
           ELSE /\ inv.written \subseteq store
                /\ {r \in store : r.inv = v} = inv.written

\* The same with the transactional half restricted to the invocations whose
\* adapter opened a transaction.
C24_FailedInvokeOfOpeningAdapter ==
  \A v \in DOMAIN invs :
    LET inv == invs[v]
    IN (inv.pc = "rejected" /\ FinalFailure(inv)
          /\ inv.trx # "passthrough") =>
         IF IsTransactional(inv)
           THEN {r \in store : r.inv = v} = {} /\ inv.trx = "rolledback"
           ELSE /\ inv.written \subseteq store
                /\ {r \in store : r.inv = v} = inv.written

\* C25: a step whose definition has the documented service shape
\* () => (db) => value resolves to the value of the operation, at every
\* position of the pipeline, the first included: no step's result and no
\* invoke()'s outcome is a function.
C25_ServiceShapeYieldsValue ==
  \A v \in DOMAIN invs :
    LET inv == invs[v]
    IN /\ inv.outcome.kind # "function"
       /\ \A k \in DOMAIN inv.results : inv.results[k].kind # "function"

\* The same for the positions after the first: there fn(results) returns
\* the function, which is run against the handle.
C25_ServiceShapeAfterFirstStep ==
  \A v \in DOMAIN invs :
    LET inv == invs[v]
    IN /\ \A k \in DOMAIN inv.results :
            k > 1 => inv.results[k].kind # "function"
       /\ \A n \in DOMAIN inv.settled :
            LET x == inv.settled[n]
            IN (x.via = "accessor" /\ x.ok) =>
                 /\ Pos(inv.chain, x.task) > 1
                 /\ Pos(inv.chain, x.task) <= Len(inv.results) =>
                      inv.results[Pos(inv.chain, x.task)].kind = "value"

\* C26: when adapter.transaction() itself rejects, because beginning,
\* committing or rolling back failed, invoke() has rejected with that very
\* error, not wrapped in an envelope even when the last step captures errors;
\* adapter.transaction() is called once per invoke(), no attempt of any step
\* is run twice, and a rejected invoke() does nothing further.
C26_AdapterFailure ==
  \A v \in DOMAIN invs :
    LET inv == invs[v]
    IN /\ Len(inv.began) <= 1
       /\ \A n, m \in DOMAIN inv.settled :
            (inv.settled[n].task = inv.settled[m].task
               /\ inv.settled[n].attempt = inv.settled[m].attempt
               /\ inv.settled[n].via = inv.settled[m].via) => n = m
       /\ inv.trx = "failed" =>
            /\ inv.pc = "rejected"
            /\ inv.outcome \in AdapterErrors
            /\ {r \in store : r.inv = v} = {}
       /\ inv.outcome \in AdapterErrors => inv.trx = "failed"
       /\ inv.outcome.kind \in {ph.kind : ph \in AdapterErrors} =>
            inv.outcome \in AdapterErrors

C26_RejectedIsFinal ==
  \A v \in DOMAIN invs :
    invs[v].trx = "failed" => invs'[v] = invs[v]

C26_AdapterFailureRejectsInvoke ==
  [](C26_AdapterFailure) /\ [][C26_RejectedIsFinal]_vars

C26_Witness ==
  \E v \in DOMAIN invs :
    LET inv == invs[v]
        tasks == Tasks(inv.chain)
    IN /\ inv.trx = "failed"
       /\ inv.outcome = AdapterError("CommitFailed")
       /\ Len(tasks) = 2
       /\ Captures(tasks[2])
       /\ Len(inv.results) = 2
       /\ inv.results[2].env = "error"
       /\ inv.written # {}

\* C27: when, at a position k > 1, the function fn(results) returned rejects
\* on being run against the handle, the attempt fails with that error: the
\* definition is not called again with the handle, nothing further is
\* awaited for the attempt, and no other outcome is logged for it.
C27_AccessorRejectionFailsStep ==
  \A v \in DOMAIN invs :
    LET inv == invs[v]
    IN \A n \in DOMAIN inv.settled :
         LET x == inv.settled[n]
             cs == CallsOfAttempt(inv, x.task, x.attempt)
         IN (x.via = "accessor" /\ ~x.ok) =>
              /\ \A j \in DOMAIN cs :
                   ~(cs[j].callee = "fn" /\ cs[j].arg = "handle")
              /\ \A m \in DOMAIN inv.settled :
                   (inv.settled[m].task = x.task
                      /\ inv.settled[m].attempt = x.attempt) => m = n
              /\ ~(inv.pc = "op" /\ inv.attempt = x.attempt
                     /\ inv.i = Pos(inv.chain, x.task) - 1)

\* C28 as stated: in an attempt of a direct-operation step at a position
\* k > 1 the definition is called exactly once, with the handle, and never
\* with the accumulator.
C28_DirectStepCalledOnce ==
  \A v \in DOMAIN invs :
    LET inv == invs[v]
        tasks == Tasks(inv.chain)
    IN \A k \in DOMAIN tasks : \A a \in 1..(tasks[k].options.retry + 1) :
         LET cs == CallsOfAttempt(inv, tasks[k].id, a)
         IN (k > 1 /\ Len(cs) > 0 /\ ~AccessorAttempt(inv, tasks[k].id, a))
              => /\ Len(cs) = 1
                 /\ cs[1].callee = "fn" /\ cs[1].arg = "handle"

\* C28: in an attempt of a direct-operation step at a position k > 1 the
\* definition is called once with the accumulator, as a probe, and then
\* exactly once with the handle; at the first position it is called once,
\* with the handle.  Rows are written through the handle only, and at most
\* one operation per attempt is awaited for its outcome.
C28_DirectStepProbedThenCalledOnce ==
  \A v \in DOMAIN invs :
    LET inv == invs[v]
        tasks == Tasks(inv.chain)
    IN /\ \A r \in inv.written : r.inv = v /\ r.task \in TaskIds(inv.chain)
       /\ \A k \in DOMAIN tasks : \A a \in 1..(tasks[k].options.retry + 1) :
            LET id == tasks[k].id
                cs == CallsOfAttempt(inv, id, a)
                withHandle == SelectSeq(cs, LAMBDA c : c.arg = "handle")
                withResults == SelectSeq(cs, LAMBDA c : c.arg = "results")
            IN (Len(cs) > 0 /\ ~AccessorAttempt(inv, id, a)) =>
                 /\ Len(withHandle) = 1
                 /\ withHandle[1].callee = "fn"
                 /\ withHandle[1].handle = inv.handle
                 /\ Len(withResults) = (IF k > 1 THEN 1 ELSE 0)
                 /\ k > 1 => /\ cs[1] = withResults[1]
                             /\ cs[1].callee = "fn"
                             /\ Len(cs[1].acc) = k - 1
                 /\ cs[Len(cs)] = withHandle[1]
                 /\ Cardinality({n \in DOMAIN inv.settled :
                       /\ inv.settled[n].task = id
                       /\ inv.settled[n].attempt = a}) <= 1

C28_Witness ==
  \E v \in DOMAIN invs :
    LET inv == invs[v]
        tasks == Tasks(inv.chain)
    IN /\ Len(tasks) = 2
       /\ tasks[2].options.retry = 1
       /\ Len(CallsOfAttempt(inv, tasks[2].id, 1)) = 2
       /\ Len(CallsOfAttempt(inv, tasks[2].id, 2)) = 2
       /\ ~AccessorAttempt(inv, tasks[2].id, 1)
       /\ ~AccessorAttempt(inv, tasks[2].id, 2)
       /\ Row(v, tasks[2].id) \in inv.written
       /\ Len(inv.results) = 2

\* C29: within one invoke() the accumulator only grows, one entry at a time
\* and in the order of the steps: its keys are r1..rk with entry j holding
\* an outcome of step j, an entry is written when the step's awaited task
\* has settled for good and before the next task is started, a failed
\* attempt that is retried writes nothing, and an entry once written is
\* never changed or removed.
C29_Positional ==
  \A v \in DOMAIN invs :
    LET inv == invs[v]
        tasks == Tasks(inv.chain)
    IN /\ Len(inv.results) <= Len(tasks)
       /\ inv.pc \in {"loop", "op", "retry"} => Len(inv.results) = inv.i
       /\ \A k \in DOMAIN inv.results :
            LET r == inv.results[k]
            IN /\ r # Undefined
               /\ r.task = tasks[k].id
               /\ r.env = "error" => r.attempt = tasks[k].options.retry + 1
               /\ \E n \in DOMAIN inv.settled :
                    /\ inv.settled[n].task = r.task
                    /\ inv.settled[n].attempt = r.attempt
                    /\ inv.settled[n].ok = (r.env # "error")
               /\ \A n \in DOMAIN inv.settled :
                    inv.settled[n].task = r.task =>
                      inv.settled[n].attempt <= r.attempt

C29_AppendOnly ==
  \A v \in DOMAIN invs :
    LET inv == invs[v]
        after == invs'[v]
    IN /\ Len(after.results) >= Len(inv.results)
       /\ Len(after.results) <= Len(inv.results) + 1
       /\ SubSeq(after.results, 1, Len(inv.results)) = inv.results
       /\ Len(after.results) = Len(inv.results) + 1 =>
            /\ inv.pc = "op"
            /\ after.pc = "loop"
            /\ after.i = inv.i + 1
            /\ after.calls = inv.calls
            /\ after.results[Len(after.results)] = after.lastResult
       /\ after.calls # inv.calls => after.results = inv.results

C29_AccumulatorAppendOnly ==
  [](C29_Positional) /\ [][C29_AppendOnly]_vars

C29_Witness ==
  \E v \in DOMAIN invs :
    LET inv == invs[v]
        tasks == Tasks(inv.chain)
    IN /\ Len(tasks) = 2
       /\ Len(inv.results) = 2
       /\ inv.results[1].attempt = 2
       /\ inv.results[1].env = "none"
       /\ inv.results[2].env = "error"
       /\ Len(inv.settled) >= 4

\* C30: every attempt of a step is given the handle and the accumulator the
\* first attempt was given: all calls made for one step, in whatever attempt,
\* carry the same handle and the same accumulator contents, and each
\* attempt starts by deciding the shape anew, with the probe fn(results)
\* when the accumulator is not empty and with the direct call otherwise.
\* Between the attempts of a step the accumulator and the handle do not
\* change.
C30_AttemptsAlike ==
  \A v \in DOMAIN invs :
    LET inv == invs[v]
        tasks == Tasks(inv.chain)
    IN \A k \in DOMAIN tasks : \A a \in 1..(tasks[k].options.retry + 1) :
         LET first == CallsOfAttempt(inv, tasks[k].id, 1)
             cs == CallsOfAttempt(inv, tasks[k].id, a)
         IN Len(cs) > 0 =>
              /\ Len(first) > 0
              /\ \A j \in DOMAIN cs :
                   /\ cs[j].handle = first[1].handle
                   /\ cs[j].acc = first[1].acc
              /\ cs[1].callee = "fn"
              /\ cs[1].arg = first[1].arg
              /\ cs[1].arg = (IF HasResults(first[1].acc) THEN "results"
                              ELSE "handle")

C30_BetweenAttempts ==
  \A v \in DOMAIN invs :
    (invs[v].pc \in {"op", "retry"} /\ invs'[v].pc \in {"op", "retry"}) =>
      /\ invs'[v].results = invs[v].results
      /\ invs'[v].handle = invs[v].handle
      /\ invs'[v].i = invs[v].i

C30_RetriesGetSameArguments ==
  [](C30_AttemptsAlike) /\ [][C30_BetweenAttempts]_vars

C30_Witness ==
  \E v \in DOMAIN invs :
    LET inv == invs[v]
        tasks == Tasks(inv.chain)
    IN /\ Len(tasks) = 2
       /\ AccessorAttempt(inv, tasks[2].id, 1)
       /\ ~AccessorAttempt(inv, tasks[2].id, 2)
       /\ Len(CallsOfAttempt(inv, tasks[2].id, 2)) = 2
       /\ inv.handle = Trx(v)
       /\ Len(CallsOfAttempt(inv, tasks[1].id, 2)) = 1

\* What chain() on pipeline p has made: the new pipeline holds p's tasks
\* followed by the new task and p's context, and p and every other pipeline,
\* the earlier forks of p among them, are as they were.
C31_Forked(p, options) ==
  LET q == Len(chains) + 1
  IN /\ Len(chains') = q
     /\ chains'[q].context = chains[p].context
     /\ arrays'[chains'[q].tasks] = Append(Tasks(p), WrappedTask(q, options))
     /\ \A r \in DOMAIN chains :
          /\ chains'[r] = chains[r]
          /\ arrays'[chains[r].tasks] = arrays[chains[r].tasks]

\* Pipelines a and b are forks of one pipeline: the same tasks up to the
\* last, which each fork got from its own chain() call.
C31_Forks(a, b) ==
  /\ a # b
  /\ Len(Tasks(a)) = Len(Tasks(b))
  /\ Len(Tasks(a)) >= 1
  /\ SubSeq(Tasks(a), 1, Len(Tasks(a)) - 1)
       = SubSeq(Tasks(b), 1, Len(Tasks(b)) - 1)
  /\ Tasks(a)[Len(Tasks(a))].id = a
  /\ Tasks(b)[Len(Tasks(b))].id = b

\* C31: two pipelines forked from one parent are independent.  chain() gives
\* each fork the parent's tasks followed by its own step and the parent's
\* context, leaving the parent and the other fork untouched; an invoke() on
\* one fork calls only that fork's tasks, never the other fork's step, and
\* both forks hold the parent's context.
C31_ForksIndependent ==
  /\ [](\A a, b \in DOMAIN chains :
          C31_Forks(a, b) =>
            /\ chains[a].context = chains[b].context
            /\ \A v \in DOMAIN invs :
                 invs[v].chain = a =>
                   \A n \in DOMAIN invs[v].calls :
                     /\ invs[v].calls[n].task \in TaskIds(a)
                     /\ invs[v].calls[n].task # b)
  /\ [][\A p \in DOMAIN chains :
          Chain(p, NoOptions) => C31_Forked(p, NoOptions)]_vars

C31_Witness ==
  \E a, b \in DOMAIN chains : \E v, w \in DOMAIN invs :
    /\ C31_Forks(a, b)
    /\ Len(Tasks(a)) = 2
    /\ invs[v].chain = a
    /\ invs[w].chain = b
    /\ invs[v].pc = "resolved"
    /\ invs[w].pc = "resolved"
    /\ Len(invs[v].results) = 2
    /\ Len(invs[w].results) = 2
    /\ invs[v].results[2].task = a
    /\ invs[w].results[2].task = b

\* C32: invoke() calls that interleave, on one pipeline or on forks with one
\* context, each have an accumulator of their own.  Every entry of an
\* activation's accumulator is an outcome of that activation's own step at
\* that position, every call sees only what its own activation recorded,
\* and an activation has failed only through a failure of its own.  A step
\* of one activation changes nothing of any other activation.  What they
\* share is the bound handle.
C32_OwnAccumulator ==
  \A v \in DOMAIN invs :
    LET inv == invs[v]
        tasks == Tasks(inv.chain)
    IN /\ Len(inv.results) <= Len(tasks)
       /\ \A k \in DOMAIN inv.results :
            /\ inv.results[k].task = tasks[k].id
            /\ \E n \in DOMAIN inv.settled :
                 /\ inv.settled[n].task = inv.results[k].task
                 /\ inv.settled[n].attempt = inv.results[k].attempt
       /\ inv.pc \in {"loop", "op", "retry"} => Len(inv.results) = inv.i
       /\ \A n \in DOMAIN inv.calls :
            inv.calls[n].acc = SubSeq(inv.results, 1, Len(inv.calls[n].acc))
       /\ inv.pc \in {"rejected", "rollback"} => FinalFailure(inv)
       /\ \A w \in DOMAIN invs :
            LET c == chains[inv.chain].context
            IN chains[invs[w].chain].context = c =>
                 IF c.isTransaction
                   THEN inv.began = invs[w].began
                   ELSE inv.handle = invs[w].handle

C32_OthersUntouched ==
  \A v, w \in DOMAIN invs :
    (v # w /\ invs'[v] # invs[v]) => invs'[w] = invs[w]

C32_InterleavedInvokesIsolated ==
  [](C32_OwnAccumulator) /\ [][C32_OthersUntouched]_vars

C32_Witness ==
  \E v, w \in DOMAIN invs :
    /\ v # w
    /\ invs[v].chain # invs[w].chain
    /\ chains[invs[v].chain].context = chains[invs[w].chain].context
    /\ invs[v].pc = "rejected"
    /\ Len(invs[v].results) = 1
    /\ invs[w].pc = "op"
    /\ invs[w].i = 1
    /\ Len(invs[w].results) = 1
    /\ Len(invs[w].calls) >= 3

\* C33: use(), transaction() and chain() execute nothing.  A step that is
\* one of these calls leaves every activation and the store as they are: no
\* step definition, adapter or policy executor is called and the handle is
\* not touched.  Every call into user code, every call of the adapter and
\* every row written belongs to an activation of invoke(), and the tasks a
\* pipeline holds carry no decision about their shape.
C33_BuilderStep ==
  \A p \in DOMAIN chains :
    /\ \A db \in Handles, a \in Adapters \cup {NoAdapter} :
         (Use(p, db, a) \/ Transaction(p, db, a)) =>
           /\ invs' = invs
           /\ store' = store
           /\ arrays' = arrays
    /\ \A o \in ChainOptions :
         Chain(p, o) =>
           /\ invs' = invs
           /\ store' = store
           /\ Len(arrays') = Len(arrays) + 1
           /\ arrays'[Len(arrays')][Len(Tasks(p)) + 1]
                = WrappedTask(Len(chains) + 1, o)

C33_OnlyInvokeExecutes ==
  /\ \A r \in store : r.inv \in DOMAIN invs /\ r \in invs[r.inv].written
  /\ \A a \in DOMAIN arrays : \A k \in DOMAIN arrays[a] :
       DOMAIN arrays[a][k] = {"id", "options"}
  /\ invs = <<>> => store = {}

C33_BuilderCallsExecuteNothing ==
  [](C33_OnlyInvokeExecutes) /\ [][C33_BuilderStep]_vars

C33_Witness ==
  /\ Len(chains) = MaxChains
  /\ \E p, q \in DOMAIN chains :
       /\ chains[p].context # NullContext
       /\ ~chains[p].context.isTransaction
       /\ chains[q].context # NullContext
       /\ chains[q].context.isTransaction
       /\ chains[q].context.adapter # NoAdapter
       /\ Len(Tasks(q)) = 1
  /\ invs = <<>>
  /\ store = {}

\* C34: a transactional invoke() is all-or-nothing.  While it runs none of
\* its writes is in the store; when it has committed, everything its steps
\* wrote through the handle is in the store, the writes of failed attempts
\* that were retried and of steps whose failure was captured included; when
\* it has rejected, nothing of it is in the store.
C34_AllOrNothing ==
  \A v \in DOMAIN invs :
    LET inv == invs[v]
        mine == {r \in store : r.inv = v}
    IN IsTransactional(inv) =>
         /\ inv.pc \in {"loop", "op", "retry", "commit", "rollback"} =>
              mine = {}
         /\ inv.pc = "resolved" => mine = inv.written
         /\ inv.pc = "rejected" => mine = {}

\* The same for the invocations whose adapter opened a transaction.
C34_OpenedTransactionAllOrNothing ==
  \A v \in DOMAIN invs :
    LET inv == invs[v]
        mine == {r \in store : r.inv = v}
    IN (IsTransactional(inv) /\ inv.trx # "passthrough") =>
         /\ inv.pc \in {"loop", "op", "retry", "commit", "rollback"} =>
              /\ mine = {}
              /\ inv.writes = inv.written
         /\ inv.pc = "resolved" => mine = inv.written /\ inv.trx = "committed"
         /\ inv.pc = "rejected" => mine = {} /\ inv.trx = "rolledback"

\* C35: once a transactional invoke() has rejected because a step timed out
\* without error capture, the transaction is rolled back and the store holds
\* nothing of the invocation, at the rejection and at any time after it,
\* although the operation that timed out may still settle and write through
\* the handle it was given.
C35_TimeoutRollsBackForGood ==
  \A v \in DOMAIN invs :
    LET inv == invs[v]
    IN (IsTransactional(inv) /\ inv.pc = "rejected"
          /\ inv.outcome.kind = "Timeout") =>
         /\ inv.trx = "rolledback"
         /\ {r \in store : r.inv = v} = {}

\* The same for the invocations whose adapter opened a transaction: what
\* the abandoned operation writes before the rollback is rolled back with
\* the rest, and what it writes after it lands nowhere.
C35_OpenedTransactionTimeout ==
  \A v \in DOMAIN invs :
    LET inv == invs[v]
    IN (IsTransactional(inv) /\ inv.trx # "passthrough"
          /\ inv.pc = "rejected" /\ inv.outcome.kind = "Timeout") =>
         /\ inv.trx = "rolledback"
         /\ inv.writes = {}
         /\ {r \in store : r.inv = v} = {}

\* An activation is running, or has completed or failed.
C36_Running(inv) == inv.pc \in {"loop", "op", "retry", "commit", "rollback"}
C36_Done(inv) == inv.pc \in {"resolved", "rejected"}

\* Only a bound pipeline is ever running, and an activation is running or
\* done.
C36_States ==
  \A v \in DOMAIN invs :
    /\ C36_Running(invs[v]) \/ C36_Done(invs[v])
    /\ C36_Running(invs[v]) => chains[invs[v].chain].context # NullContext
    /\ invs[v].attempt <= MaxRetry + 1

\* An activation that is done stays as it is and starts no step or attempt.
C36_DoneIsFinal ==
  \A v \in DOMAIN invs :
    C36_Done(invs[v]) =>
      /\ invs'[v].pc = invs[v].pc
      /\ invs'[v].outcome = invs[v].outcome
      /\ invs'[v].i = invs[v].i
      /\ invs'[v].attempt = invs[v].attempt
      /\ invs'[v].results = invs[v].results
      /\ invs'[v].settled = invs[v].settled

\* C36: every invoke() on a bound pipeline is eventually completed or
\* failed, given that every attempt settles or reaches its time limit; only
\* bound pipelines run, and an invocation that is completed or failed starts
\* nothing further.
C36_InvokeTerminates ==
  /\ [](C36_States)
  /\ [][C36_DoneIsFinal]_vars
  /\ \A v \in 1..MaxInvokes :
       (v \in DOMAIN invs) ~> (v \in DOMAIN invs /\ C36_Done(invs[v]))

C36_Witness ==
  \E v \in DOMAIN invs :
    LET inv == invs[v]
    IN /\ inv.pc = "rejected"
       /\ inv.trx = "rolledback"
       /\ Len(Tasks(inv.chain)) = 2
       /\ Len(inv.results) = 1
       /\ inv.attempt = 2
       /\ inv.outcome.kind = "Timeout"
       /\ inv.pending # {}

\* C37: whether a step is first tried as a results accessor depends on its
\* position alone.  Every attempt of a step at a position k > 1 starts with
\* the probe fn(results), whatever the earlier steps produced, undefined or
\* an {error} envelope included, and every attempt of the first step starts
\* with the direct call; the accumulator of a step at position k has k-1
\* keys.
C37_ShapeChoiceByPosition ==
  \A v \in DOMAIN invs :
    LET inv == invs[v]
        tasks == Tasks(inv.chain)
    IN /\ \A k \in DOMAIN inv.results : HasResults(SubSeq(inv.results, 1, k))
       /\ \A k \in DOMAIN tasks : \A a \in 1..(tasks[k].options.retry + 1) :
            LET cs == CallsOfAttempt(inv, tasks[k].id, a)
            IN Len(cs) > 0 =>
                 /\ Len(cs[1].acc) = k - 1
                 /\ cs[1].callee = "fn"
                 /\ cs[1].arg = (IF k > 1 THEN "results" ELSE "handle")

C37_Witness ==
  \E v \in DOMAIN invs :
    LET inv == invs[v]
        tasks == Tasks(inv.chain)
    IN /\ Len(tasks) = 2
       /\ Len(inv.results) = 2
       /\ inv.results[1] = Void(tasks[1].id, 1)
       /\ LET cs == CallsOfAttempt(inv, tasks[2].id, 1)
          IN /\ Len(cs) = 2
             /\ cs[1].arg = "results"
             /\ cs[1].acc = <<Void(tasks[1].id, 1)>>
             /\ cs[2].callee = "dbFn"

\* C38: an invoke() on a pipeline bound with use() never calls the adapter,
\* whether one was supplied or not: no transaction is begun, committed or
\* rolled back, every call into user code is given the handle that was
\* bound, and what the steps write is in the store at once.
C38_UseNeverCallsAdapter ==
  \A v \in DOMAIN invs :
    LET inv == invs[v]
        c == chains[inv.chain].context
    IN (c # NullContext /\ ~c.isTransaction) =>
         /\ inv.began = <<>>
         /\ inv.trx = "none"
         /\ inv.pc \notin {"commit", "rollback"}
         /\ inv.handle = HandleOf(c.db)
         /\ \A n \in DOMAIN inv.calls :
              inv.calls[n].handle = HandleOf(c.db)
         /\ inv.writes = {}
         /\ inv.written = {r \in store : r.inv = v}

C38_Witness ==
  \E v \in DOMAIN invs :
    LET inv == invs[v]
        c == chains[inv.chain].context
    IN /\ c # NullContext
       /\ ~c.isTransaction
       /\ c.adapter # NoAdapter
       /\ inv.pc = "rejected"
       /\ Len(inv.results) = 1
       /\ Len(inv.calls) >= 3
       /\ Cardinality(inv.written) = 2

\* C39: invoke() on a bound pipeline without steps resolves to undefined and
\* runs nothing against the handle.  In transactional mode the adapter's
\* transaction() is called exactly once, for an empty transaction that
\* commits, and without an adapter invoke() rejects with the configuration
\* error.
C39_EmptyPipeline ==
  \A v \in DOMAIN invs :
    LET inv == invs[v]
        c == chains[inv.chain].context
    IN (c # NullContext /\ Len(Tasks(inv.chain)) = 0) =>
         /\ inv.calls = <<>>
         /\ inv.written = {}
         /\ {r \in store : r.inv = v} = {}
         /\ inv.pc \in {"resolved", "rejected", "loop", "commit"}
         /\ inv.pc = "resolved" => inv.outcome = Undefined
         /\ (c.isTransaction /\ c.adapter = NoAdapter) =>
              /\ inv.pc = "rejected"
              /\ inv.outcome = ErrAdapterRequired
              /\ inv.began = <<>>
         /\ (c.isTransaction /\ c.adapter # NoAdapter) =>
              /\ inv.began = <<HandleOf(c.db)>>
              /\ inv.pc # "rejected"
              /\ inv.pc = "resolved" => inv.trx = "committed"
         /\ ~c.isTransaction =>
              /\ inv.began = <<>>
              /\ inv.pc # "rejected"

\* The same with the commit asked of the adapter calls that open a
\* transaction only; for the others transaction() is still called once.
C39_EmptyPipelineOfOpeningAdapter ==
  \A v \in DOMAIN invs :
    LET inv == invs[v]
        c == chains[inv.chain].context
    IN (c # NullContext /\ Len(Tasks(inv.chain)) = 0) =>
         /\ inv.calls = <<>>
         /\ inv.written = {}
         /\ {r \in store : r.inv = v} = {}
         /\ inv.pc \in {"resolved", "rejected", "loop", "commit"}
         /\ inv.pc = "resolved" => inv.outcome = Undefined
         /\ (c.isTransaction /\ c.adapter = NoAdapter) =>
              /\ inv.pc = "rejected"
              /\ inv.outcome = ErrAdapterRequired
              /\ inv.began = <<>>
         /\ (c.isTransaction /\ c.adapter # NoAdapter) =>
              /\ inv.began = <<HandleOf(c.db)>>
              /\ inv.pc # "rejected"
              /\ (inv.pc = "resolved" /\ OpensTransaction(c.adapter, c.db))
                   => inv.trx = "committed"
         /\ ~c.isTransaction =>
              /\ inv.began = <<>>
              /\ inv.pc # "rejected"

\* What a convenience class call has made: a pipeline without steps, on an
\* array of its own, with the context use() or transaction() of the generic
\* builder gives for this handle and the class's adapter; nothing else is
\* changed.
C40_Made(db, isTransaction) ==
  LET q == Len(chains) + 1
  IN /\ Len(chains') = q
     /\ chains'[q].context = DbContext(db, "adapter", isTransaction)
     /\ Len(arrays'[chains'[q].tasks]) = 0
     /\ \A r \in DOMAIN chains :
          /\ chains'[r] = chains[r]
          /\ chains[r].tasks # chains'[q].tasks
          /\ arrays'[chains[r].tasks] = arrays[chains[r].tasks]
     /\ invs' = invs
     /\ store' = store

\* Every pipeline is bound with an adapter, and an invoke() goes the way the
\* generic builder's pipeline with that context goes: never into a
\* configuration error; with use() straight to the bound handle, with
\* transaction() through the adapter.
C40_LikeGeneric ==
  /\ \A p \in DOMAIN chains :
       /\ chains[p].context # NullContext
       /\ chains[p].context.adapter \in Adapters
       /\ InvokeDispatch(chains[p].context) # "throwDatabaseNotSet"
       /\ AdapterCheck(chains[p].context.adapter) = "transaction"
  /\ \A v \in DOMAIN invs :
       LET inv == invs[v]
           c == chains[inv.chain].context
       IN /\ inv.outcome \notin {ErrAdapterRequired, ErrDatabaseNotSet}
          /\ inv.began = (IF c.isTransaction THEN <<HandleOf(c.db)>>
                          ELSE <<>>)
          /\ ~c.isTransaction => inv.handle = HandleOf(c.db)

\* C40: the convenience classes behave like the generic builder with the
\* matching adapter: X.use(db) gives the pipeline of
\* new Chains().use(db, adapter), X.transaction(db) that of
\* new Chains().transaction(db, adapter), each without steps, and no
\* invoke() on a pipeline obtained from them fails with a configuration
\* error.
C40_ConvenienceLikeGeneric ==
  /\ [](C40_LikeGeneric)
  /\ [][\A db \in Handles :
          /\ ConvenienceUse(db) => C40_Made(db, FALSE)
          /\ ConvenienceTransaction(db) => C40_Made(db, TRUE)]_vars

C40_Witness ==
  \E p \in DOMAIN chains : \E v \in DOMAIN invs :
    /\ Len(Tasks(p)) = 0
    /\ ~chains[p].context.isTransaction
    /\ chains[invs[v].chain].context.isTransaction
    /\ Len(Tasks(invs[v].chain)) = 1
    /\ invs[v].pc = "resolved"
    /\ invs[v].trx = "committed"
    /\ invs[v].written # {}

====
